---- MODULE Spec2Model ----
(***************************************************************************)
(* SpendGuard: the LightweightInterceptor content script                   *)
(* (src/src/content/intercept.tsx, lines 974-2029) together with the       *)
(* background message handler (src/src/background/index.ts, lines 23-53)   *)
(* and the chrome.storage.local keys they share; the storage functions of  *)
(* src/src/utils/storage.ts; and the guarding and click handling of        *)
(* CheckoutInterceptor (src/src/content/intercept.tsx, lines 413-512).     *)
(* Further: the button classifier (lines 1041-1127), the nudge provider    *)
(* (src/src/utils/gptClient.ts), the form fallback of proceedWithClick     *)
(* (lines 1540-1550) and the React CooldownTimer                           *)
(* (src/src/components/CooldownTimer.tsx and its version with a fade).     *)
(* Further: the Set-based interceptors (intercept.tsx lines 77-283 and     *)
(* src/unnamed/part_007) and the click they dispatch, the proceed path and *)
(* the debounced observer of CheckoutInterceptor (lines 423-531), and      *)
(* extractPriceFromText and categorizePurchase (src/unnamed/part_003).     *)
(*                                                                         *)
(* The page runs one event-loop task at a time.  Every action below is one *)
(* task (an event listener, a timer callback, a storage or message         *)
(* callback) together with the microtasks it queues: promise continuations *)
(* up to the next await on an external callback, and the MutationObserver  *)
(* callback for the DOM changes the task made.                             *)
(*                                                                         *)
(* Elements are modelled without nesting: an event dispatched at a button  *)
(* reaches the listeners of that button only.                              *)
(* Timers are ideal: a callback runs at its due time, the clock of an      *)
(* overlay does not pass a timer that is due.                              *)
(***************************************************************************)
EXTENDS Integers, Sequences, FiniteSets, TLC

(* ---------------------------- bounds ---------------------------------- *)
MaxClicks == 2          \* intercepted clicks in one page lifetime
MaxCooldown == 6        \* largest Settings.cooldownSeconds explored
MaxOverlayClicks == 2   \* clicks on the two overlay buttons, per overlay
ShortCooldown == 1      \* largest cooldown followed with several clicks
MaxRequests == 2        \* storage requests followed in the store alone
MaxReplays == 3         \* cooldowns one Set-based interceptor is followed for
MaxBatches == 3         \* mutation batches one page is followed for
TimeStep == 250         \* milliseconds between two looks at the page's timers
MaxTime == 1500         \* milliseconds the observer is followed for
MaxClock == 2           \* milliseconds the store clock is followed for

(* ------------------------ program constants --------------------------- *)
SkipUnlockSeconds == 5  \* Math.min(5000, seconds * 1000)
PurchasesCap == 100     \* purchases.splice(100)
DebounceWait == 500     \* this.debounce(() => this.checkCurrentPage(), 500)
PriceCeiling == 1000000 \* price < 1000000
DefaultCooldown == 30   \* settings.cooldownSeconds as installed

Buttons == {"b1", "b2"}
Prices == {0, 30}   \* 0 stands for context.price undefined (falsy)
Months == {"2025-01", "2025-02"}
FirstMonth == "2025-01"
Categories == {"Books", "Games"}
SavedPrices == {10, 30}   \* prices handed to recordSavings directly

Min(a, b) == IF a < b THEN a ELSE b
Take(s, n) == SubSeq(s, 1, Min(n, Len(s)))

VARIABLES
  started,             \* init() has run: observer connected
  inDom,               \* elements currently in the document
  cooldownActive,      \* LightweightInterceptor.cooldownActive
  interceptedButtons,  \* LightweightInterceptor.interceptedButtons
  processedButtons,    \* LightweightInterceptor.processedButtons
  eventListeners,      \* keys of LightweightInterceptor.eventListeners
  clickListeners,      \* per element: capture click listeners attached
  reintercepted,       \* a dispatched synthetic click was caught by a guard
  inst,                \* one record per intercepted click (async handler)
  clicksLeft,          \* intercepted clicks the run may still make
  msgs,                \* runtime messages sent so far: message id -> state
  purchases,           \* chrome.storage.local 'purchases'
  totalIntercepts,     \* chrome.storage.local 'totalIntercepts'
  ledger,              \* chrome.storage.local 'spendguardSavings'
  cooldownSeconds,     \* Settings.cooldownSeconds as getSettings answers it
  pagePrice,           \* the price extractSimpleContext finds on the page
  monthKey,            \* current month, new Date(now).toISOString().slice(0, 7)
  clock,               \* Date.now(), in milliseconds
  settings,            \* chrome.storage.local 'settings': cooldownSeconds
  absentKeys,          \* keys that chrome.storage.local does not hold
  call,                \* the last read or provider call made and what it returned
  page,                \* window.location and the page's price and cart markup
  elements,            \* per element: textContent, aria-label, className, id
  formButtons,         \* submit buttons that sit inside a form
  timer,               \* the mounted React CooldownTimer and its callbacks
  setGuard,            \* a Set-based interceptor: one button, its listeners
                       \* and its cooldowns
  debounce,            \* CheckoutInterceptor: the timers its observer
                       \* callback has set through debounce
  guardSettings        \* CheckoutInterceptor: per guarded button, the
                       \* cooldownSeconds its listener closed over (0: none)

vars == <<started, inDom, cooldownActive, interceptedButtons, processedButtons,
          eventListeners, clickListeners, reintercepted, inst, clicksLeft, msgs,
          purchases, totalIntercepts, ledger, cooldownSeconds, pagePrice,
          monthKey, clock, settings, guardSettings,
          absentKeys,
          call,
          page,
          elements,
          formButtons,
          timer,
          setGuard,
          debounce>>

envVars == <<cooldownSeconds, pagePrice, monthKey, clock, settings,
             guardSettings,
            absentKeys,
            call,
            page,
            elements,
            formButtons,
            timer,
          setGuard,
          debounce>>
\* the inputs of the reads, the classifier, the form fallback and the React
\* timer
auxVars == <<absentKeys, call, page, elements, formButtons, timer,
          setGuard,
          debounce>>
\* everything but call
allButCall == <<started, inDom, cooldownActive, interceptedButtons,
                processedButtons, eventListeners, clickListeners,
                reintercepted, inst, clicksLeft, msgs, purchases,
                totalIntercepts, ledger, cooldownSeconds, pagePrice, monthKey,
                clock, settings, guardSettings, absentKeys, page, elements,
                formButtons, timer,
          setGuard,
          debounce>>
\* everything but timer
allButTimer == <<started, inDom, cooldownActive, interceptedButtons,
                 processedButtons, eventListeners, clickListeners,
                 reintercepted, inst, clicksLeft, msgs, purchases,
                 totalIntercepts, ledger, cooldownSeconds, pagePrice,
                 monthKey, clock, settings, guardSettings, absentKeys, page,
                 elements, formButtons, call,
          setGuard,
          debounce>>
\* everything but setGuard
allButSetGuard == <<started, inDom, cooldownActive, interceptedButtons,
                    processedButtons, eventListeners, clickListeners,
                    reintercepted, inst, clicksLeft, msgs, purchases,
                    totalIntercepts, ledger, cooldownSeconds, pagePrice,
                    monthKey, clock, settings, guardSettings, absentKeys,
                    page, elements, formButtons, call, timer, debounce>>
\* everything but debounce
allButDebounce == <<started, inDom, cooldownActive, interceptedButtons,
                    processedButtons, eventListeners, clickListeners,
                    reintercepted, inst, clicksLeft, msgs, purchases,
                    totalIntercepts, ledger, cooldownSeconds, pagePrice,
                    monthKey, clock, settings, guardSettings, absentKeys,
                    page, elements, formButtons, call, timer, setGuard>>
pageVars == <<started, inDom, cooldownActive, interceptedButtons,
              processedButtons, eventListeners, clickListeners, reintercepted>>
registryVars == <<interceptedButtons, processedButtons, eventListeners,
                  clickListeners>>
storeVars == <<purchases, totalIntercepts>>

(* ------------------------- savings ledger ----------------------------- *)
\* A bucket that is not in categorySavings or monthlySavings reads as 0
\* ((x[key] || 0)); biggestSave stands for biggestSave.amount.
getDefaultSavingsData ==
  [totalSaved |-> 0, interceptsCount |-> 0,
   categorySavings |-> [c \in Categories |-> 0],
   monthlySavings |-> [m \in Months |-> 0], biggestSave |-> 0]

NoCategory == "none"   \* context.category undefined

\* a fold that sets the month's bucket to the price
FoldSavingsMonthSet(data, price, category, month) ==
  [totalSaved |-> data.totalSaved + price,
   interceptsCount |-> data.interceptsCount + 1,
   categorySavings |->
     IF category \in Categories
       THEN [data.categorySavings EXCEPT ![category] = @ + price]
       ELSE data.categorySavings,
   monthlySavings |-> [data.monthlySavings EXCEPT ![month] = price],
   biggestSave |-> IF price > data.biggestSave THEN price ELSE data.biggestSave]

\* a fold that keeps the first price as the biggest save
FoldSavingsFirst(data, price, category, month) ==
  [totalSaved |-> data.totalSaved + price,
   interceptsCount |-> data.interceptsCount + 1,
   categorySavings |->
     IF category \in Categories
       THEN [data.categorySavings EXCEPT ![category] = @ + price]
       ELSE data.categorySavings,
   monthlySavings |-> [data.monthlySavings EXCEPT ![month] = @ + price],
   biggestSave |-> IF data.biggestSave = 0 THEN price ELSE data.biggestSave]

\* a fold that takes the latest price as the biggest save
FoldSavingsLatest(data, price, category, month) ==
  [totalSaved |-> data.totalSaved + price,
   interceptsCount |-> data.interceptsCount + 1,
   categorySavings |->
     IF category \in Categories
       THEN [data.categorySavings EXCEPT ![category] = @ + price]
       ELSE data.categorySavings,
   monthlySavings |-> [data.monthlySavings EXCEPT ![month] = @ + price],
   biggestSave |-> price]

\* recordSavings, lines 1635-1656 (extractSimpleContext sets productName,
\* priceText and price only: the interceptor passes no category)
FoldSavings(data, price, category, month) ==
  [totalSaved |-> data.totalSaved + price,
   interceptsCount |-> data.interceptsCount + 1,
   categorySavings |->
     IF category \in Categories
       THEN [data.categorySavings EXCEPT ![category] = @ + price]
       ELSE data.categorySavings,
   monthlySavings |-> [data.monthlySavings EXCEPT ![month] = @ + price],
   biggestSave |-> IF price > data.biggestSave THEN price ELSE data.biggestSave]

(* ------------------------- button classifier -------------------------- *)
\* Text is a sequence of characters.
UpperCase == <<"A", "B", "C", "D", "E", "F", "G", "H", "I", "J", "K", "L", "M", "N", "O", "P", "Q", "R", "S", "T", "U", "V", "W", "X", "Y", "Z">>
LowerCase == <<"a", "b", "c", "d", "e", "f", "g", "h", "i", "j", "k", "l", "m", "n", "o", "p", "q", "r", "s", "t", "u", "v", "w", "x", "y", "z">>

\* String.prototype.toLowerCase
toLowerCase(t) ==
  [i \in 1..Len(t) |->
     IF \E j \in 1..Len(UpperCase) : UpperCase[j] = t[i]
       THEN LowerCase[CHOOSE j \in 1..Len(UpperCase) : UpperCase[j] = t[i]]
       ELSE t[i]]

\* String.prototype.includes
Includes(t, k) ==
  /\ Len(k) <= Len(t)
  /\ \E i \in 1..(Len(t) - Len(k) + 1) : SubSeq(t, i, i + Len(k) - 1) = k

\* isPurchaseButton, lines 1052-1055
purchaseKeywords ==
  {<<"b", "u", "y">>,
   <<"p", "u", "r", "c", "h", "a", "s", "e">>,
   <<"c", "h", "e", "c", "k", "o", "u", "t">>,
   <<"o", "r", "d", "e", "r">>,
   <<"p", "a", "y">>,
   <<"c", "o", "m", "p", "l", "e", "t", "e">>,
   <<"a", "d", "d", " ", "t", "o", " ", "c", "a", "r", "t">>,
   <<"p", "r", "o", "c", "e", "e", "d">>,
   <<"c", "o", "n", "t", "i", "n", "u", "e">>,
   <<"p", "l", "a", "c", "e", " ", "o", "r", "d", "e", "r">>,
   <<"s", "u", "b", "m", "i", "t", " ", "o", "r", "d", "e", "r">>}

\* isPurchaseButton, lines 1057-1061
excludeKeywords ==
  {<<"c", "a", "n", "c", "e", "l">>,
   <<"b", "a", "c", "k">>,
   <<"r", "e", "t", "u", "r", "n">>,
   <<"e", "d", "i", "t">>,
   <<"r", "e", "m", "o", "v", "e">>,
   <<"d", "e", "l", "e", "t", "e">>,
   <<"m", "e", "r", "g", "e">>,
   <<"c", "o", "m", "m", "i", "t">>,
   <<"p", "u", "s", "h">>,
   <<"p", "u", "l", "l">>,
   <<"f", "o", "r", "k">>,
   <<"c", "l", "o", "n", "e">>,
   <<"c", "r", "e", "a", "t", "e">>,
   <<"n", "e", "w">>,
   <<"s", "a", "v", "e">>,
   <<"u", "p", "d", "a", "t", "e">>,
   <<"s", "u", "b", "m", "i", "t", " ", "p", "u", "l", "l">>,
   <<"s", "u", "b", "m", "i", "t", " ", "i", "s", "s", "u", "e">>}

\* isExcludedSite, lines 1079-1101
excludedDomains ==
  {<<"g", "i", "t", "h", "u", "b", ".", "c", "o", "m">>,
   <<"g", "i", "t", "l", "a", "b", ".", "c", "o", "m">>,
   <<"b", "i", "t", "b", "u", "c", "k", "e", "t", ".", "o", "r", "g">>,
   <<"s", "t", "a", "c", "k", "o", "v", "e", "r", "f", "l", "o", "w", ".", "c", "o", "m">>,
   <<"s", "t", "a", "c", "k", "e", "x", "c", "h", "a", "n", "g", "e", ".", "c", "o", "m">>,
   <<"r", "e", "d", "d", "i", "t", ".", "c", "o", "m">>,
   <<"t", "w", "i", "t", "t", "e", "r", ".", "c", "o", "m">>,
   <<"x", ".", "c", "o", "m">>,
   <<"f", "a", "c", "e", "b", "o", "o", "k", ".", "c", "o", "m">>,
   <<"i", "n", "s", "t", "a", "g", "r", "a", "m", ".", "c", "o", "m">>,
   <<"l", "i", "n", "k", "e", "d", "i", "n", ".", "c", "o", "m">>,
   <<"y", "o", "u", "t", "u", "b", "e", ".", "c", "o", "m">>,
   <<"g", "o", "o", "g", "l", "e", ".", "c", "o", "m">>,
   <<"m", "i", "c", "r", "o", "s", "o", "f", "t", ".", "c", "o", "m">>,
   <<"a", "p", "p", "l", "e", ".", "c", "o", "m">>,
   <<"d", "e", "v", "e", "l", "o", "p", "e", "r", ".", "m", "o", "z", "i", "l", "l", "a", ".", "o", "r", "g">>,
   <<"d", "o", "c", "s", ".", "g", "o", "o", "g", "l", "e", ".", "c", "o", "m">>,
   <<"n", "o", "t", "i", "o", "n", ".", "s", "o">>,
   <<"s", "l", "a", "c", "k", ".", "c", "o", "m">>,
   <<"d", "i", "s", "c", "o", "r", "d", ".", "c", "o", "m">>,
   <<"z", "o", "o", "m", ".", "u", "s">>}

\* isLikelyEcommercePage, lines 1111-1114
ecommerceIndicators ==
  {<<"/", "c", "h", "e", "c", "k", "o", "u", "t">>,
   <<"/", "c", "a", "r", "t">>,
   <<"/", "b", "u", "y">>,
   <<"/", "p", "u", "r", "c", "h", "a", "s", "e">>,
   <<"/", "o", "r", "d", "e", "r">>,
   <<"/", "p", "a", "y", "m", "e", "n", "t">>,
   <<"s", "h", "o", "p">>,
   <<"s", "t", "o", "r", "e">>,
   <<"m", "a", "r", "k", "e", "t">>,
   <<"c", "o", "m", "m", "e", "r", "c", "e">>,
   <<"r", "e", "t", "a", "i", "l">>}

\* the page of the interceptions modelled elsewhere, and example pages: a
\* code-hosting site (its path and buttons look like a checkout), a page
\* without any commerce signal, and a page with price markup only
ShopPage ==
  [hostname |-> <<"s", "h", "o", "p">>, path |-> <<"/">>, priceElements |-> FALSE,
   cartElements |-> FALSE]
GitHubPage ==
  [hostname |-> <<"w", "w", "w", ".", "g", "i", "t", "h", "u", "b", ".", "c", "o", "m">>, path |-> <<"/", "c", "h", "e", "c", "k", "o", "u", "t">>,
   priceElements |-> TRUE, cartElements |-> TRUE]
BlogPage ==
  [hostname |-> <<"b", "l", "o", "g">>, path |-> <<"/">>, priceElements |-> FALSE,
   cartElements |-> FALSE]
PricedPage ==
  [hostname |-> <<"a", "c", "m", "e">>, path |-> <<"/">>, priceElements |-> TRUE,
   cartElements |-> FALSE]
Pages == {ShopPage, GitHubPage, BlogPage, PricedPage}

\* example elements
Element(text, ariaLabel, className, id) ==
  [text |-> text, ariaLabel |-> ariaLabel, className |-> className, id |-> id]
BuyElement == Element(<<"B", "u", "y">>, <<>>, <<>>, <<>>)
PayElement == Element(<<"P", "a", "y">>, <<>>, <<>>, <<>>)
BuyNowElement == Element(<<"B", "u", "y", " ", "N", "o", "w">>, <<>>, <<"b", "t", "n">>, <<>>)
CancelOrderElement == Element(<<"C", "a", "n", "c", "e", "l", " ", "o", "r", "d", "e", "r">>, <<>>, <<>>, <<>>)
SignInElement == Element(<<"S", "i", "g", "n", " ", "i", "n">>, <<>>, <<>>, <<>>)
AriaCheckoutElement == Element(<<>>, <<"C", "h", "e", "c", "k", "o", "u", "t">>, <<>>, <<>>)
NewPayElement == Element(<<>>, <<>>, <<"p", "a", "y">>, <<"n", "e", "w">>)
ElementKinds ==
  {BuyNowElement, CancelOrderElement, SignInElement, AriaCheckoutElement,
   NewPayElement}
ShopElements == [b \in Buttons |-> IF b = "b1" THEN BuyElement ELSE PayElement]

\* window.location.href
Href == <<"h", "t", "t", "p", "s", ":", "/", "/">> \o page.hostname \o page.path

\* an exclusion test that wants the hostname to be a listed domain
isExcludedSiteExact == toLowerCase(page.hostname) \in excludedDomains

\* isExcludedSite, lines 1077-1104
isExcludedSite ==
  LET hostname == toLowerCase(page.hostname)
  IN \E domain \in excludedDomains : Includes(hostname, domain)

\* isLikelyEcommercePage, lines 1106-1127
isLikelyEcommercePage ==
  LET url == toLowerCase(Href)
      hostname == toLowerCase(page.hostname)
      hasEcommerceIndicator ==
        \E indicator \in ecommerceIndicators :
          Includes(url, indicator) \/ Includes(hostname, indicator)
  IN hasEcommerceIndicator \/ page.priceElements \/ page.cartElements

\* a classifier that reads the text only
ClassifyTextOnly(e) ==
  LET text == toLowerCase(e.text)
      hasKeyword == \E keyword \in purchaseKeywords : Includes(text, keyword)
      hasExclude == \E keyword \in excludeKeywords : Includes(text, keyword)
  IN ~isExcludedSite /\ hasKeyword /\ ~hasExclude /\ isLikelyEcommercePage

\* isPurchaseButton on an element with these attributes, lines 1041-1075
Classify(e) ==
  IF isExcludedSite THEN FALSE
  ELSE LET text == toLowerCase(e.text)
           ariaLabel == toLowerCase(e.ariaLabel)
           className == toLowerCase(e.className)
           id == toLowerCase(e.id)
           hasKeyword ==
             \E keyword \in purchaseKeywords :
               Includes(text, keyword) \/ Includes(ariaLabel, keyword)
                 \/ Includes(className, keyword)
           hasExclude ==
             \E keyword \in excludeKeywords :
               Includes(text, keyword) \/ Includes(ariaLabel, keyword)
                 \/ Includes(className, keyword) \/ Includes(id, keyword)
       IN hasKeyword /\ ~hasExclude /\ isLikelyEcommercePage

(* ------------------------ interception registry ----------------------- *)
isPurchaseButton(b) == Classify(elements[b])

\* a scan that guards every matching element, registered or not
ScanTargetsUnchecked(dom, ib, pb) == {b \in dom : isPurchaseButton(b)}

\* scanForCheckoutButtons, lines 1030-1038: the elements a pass guards
ScanTargets(dom, ib, pb) ==
  IF isExcludedSite THEN {}
  ELSE {b \in dom : b \notin ib /\ b \notin pb /\ isPurchaseButton(b)}

\* the registry after one scanForCheckoutButtons pass over document dom
ScanRegistry(dom, reg) ==
  LET t == ScanTargets(dom, reg.ib, reg.pb) IN
  [ib |-> reg.ib \cup t,
   pb |-> reg.pb \cup t,
   el |-> reg.el \cup t,
   cl |-> [b \in Buttons |-> IF b \in t THEN reg.cl[b] + 1 ELSE reg.cl[b]]]

Registry ==
  [ib |-> interceptedButtons, pb |-> processedButtons,
   el |-> eventListeners, cl |-> clickListeners]

SetRegistry(reg) ==
  /\ interceptedButtons' = reg.ib
  /\ processedButtons' = reg.pb
  /\ eventListeners' = reg.el
  /\ clickListeners' = reg.cl

\* MutationObserver callback, lines 988-992
ObserverRegistry(dom, active, reg) ==
  IF started /\ ~active THEN ScanRegistry(dom, reg) ELSE reg

(* ----------------------------- messages ------------------------------- *)
\* A message is named by the handler instance that sent it, its kind and
\* its rank among the messages of that kind the instance sent.
MsgId(i, kind, n) == <<i, kind, n>>

PageUrl == "shop"        \* window.location.href
Undefined == "undefined" \* an optional field that is not set

\* A request to the store: its action, the purchase it carries, how it is
\* handled (via: "message" for the background handler, "call" for the
\* functions of utils/storage), and the progress of its read-modify-write
\* (phase, snap: the value its storage read returned, overlapped: another
\* request for the same key was between its read and its write at the time
\* of a read, wrote: rank of its write among the writes of its key).
Request(action, via, p) ==
  [action |-> action, via |-> via, url |-> p.url, timestamp |-> p.timestamp,
   reason |-> p.reason, intercepted |-> p.intercepted,
   proceeded |-> p.proceeded, amount |-> p.amount,
   phase |-> "sent", snap |-> <<>>, overlapped |-> FALSE, wrote |-> 0]

\* recordIntercept, lines 1586-1595, and recordProceed, lines 1612-1620
AddPurchaseMsg(proceeded, amount) ==
  Request("addPurchase", "message",
          [url |-> PageUrl, timestamp |-> clock, reason |-> Undefined,
           intercepted |-> TRUE, proceeded |-> proceeded, amount |-> amount])

\* recordIntercept, lines 1597-1599
IncrementMsg ==
  Request("incrementIntercepts", "message",
          [url |-> PageUrl, timestamp |-> clock, reason |-> Undefined,
           intercepted |-> FALSE, proceeded |-> FALSE, amount |-> 0])

\* the two messages recordIntercept sends for handler instance i
RecordInterceptMsgs(i, price) ==
  (MsgId(i, "record", 1) :> AddPurchaseMsg(FALSE, price))
    @@ (MsgId(i, "increment", 1) :> IncrementMsg)

(* ----------------------------- handlers ------------------------------- *)
NewInst(b) ==
  [btn |-> b, pc |-> "settings", seconds |-> 0, price |-> 0,
   category |-> NoCategory, month |-> FirstMonth,
   data |-> getDefaultSavingsData, stale |-> FALSE, overlay |-> "none", remaining |-> 0,
   canSkip |-> FALSE, now |-> 0, skipTimer |-> FALSE, interval |-> FALSE,
   fadeTimers |-> 0, proceeds |-> 0, abandoned |-> FALSE,
   staleFired |-> FALSE, atClick |-> settings, clickSubmits |-> 0,
   submitTimers |-> 0, formSubmits |-> 0]

(* --------------------- reads that degrade to defaults ------------------ *)
\* no read or provider call has been made
NoCall == [fn |-> "none"]

\* a promise's outcome
Resolved(v) == [status |-> "resolved", value |-> v]
Rejected == [status |-> "rejected"]

\* what can go wrong with a chrome.storage.local.get: the promise rejects
\* (callback form: chrome.runtime.lastError is set), or the call throws
Failures == {"none", "rejects", "throws"}

\* null / undefined, and a value that is there
Null == [found |-> FALSE]
Found(v) == [found |-> TRUE, value |-> v]

StoreKeys == {"purchases", "totalIntercepts", "settings", "spendguardSavings"}

\* the settings object the store holds: onInstalled writes both flags true
\* (background/index.ts lines 14-18) and the model changes cooldownSeconds
StoredSettings ==
  [cooldownSeconds |-> settings, enableNudges |-> TRUE,
   enableScamDetection |-> TRUE]

\* result[key] of chrome.storage.local.get([key])
StoreValue(key) ==
  IF key \in absentKeys THEN Null
  ELSE CASE key = "purchases" -> Found(purchases)
         [] key = "totalIntercepts" -> Found(totalIntercepts)
         [] key = "settings" -> Found(StoredSettings)
         [] key = "spendguardSavings" -> Found(ledger)

StorageGet(key, failure) ==
  IF failure = "none" THEN Resolved(StoreValue(key)) ELSE Rejected

\* JavaScript truthiness of a stored item: undefined and the number 0 are
\* falsy, arrays and objects are truthy
Truthy(key, item) ==
  item.found /\ (key = "totalIntercepts" => item.value # 0)

\* item || fallback on the outcome of a promise
OrElse(key, r, fallback) ==
  IF r.status = "rejected" THEN Rejected
  ELSE Resolved(IF Truthy(key, r.value) THEN r.value.value ELSE fallback)

\* a getItem without its try/catch
getItemUncaught(key, failure) ==
  LET r == StorageGet(key, failure)
  IN IF r.status = "rejected" THEN Rejected
     ELSE Resolved(IF Truthy(key, r.value) THEN r.value ELSE Null)

\* getItem, utils/storage.ts lines 29-37
getItem(key, failure) ==
  LET r == StorageGet(key, failure)
  IN IF r.status = "rejected" THEN Resolved(Null)
     ELSE Resolved(IF Truthy(key, r.value) THEN r.value ELSE Null)

\* getPurchases, lines 78-81
getPurchases(failure) == OrElse("purchases", getItem("purchases", failure), <<>>)

\* getTotalIntercepts, lines 106-109
getTotalIntercepts(failure) ==
  OrElse("totalIntercepts", getItem("totalIntercepts", failure), 0)

\* getSettings of utils/storage.ts, lines 122-129
getSettings(failure) ==
  OrElse("settings", getItem("settings", failure),
         [cooldownSeconds |-> DefaultCooldown, enableNudges |-> TRUE,
          enableScamDetection |-> TRUE])

\* getSavingsData, content/intercept.tsx lines 1665-1681: the callback form,
\* resolving the default ledger on lastError, on a throw and on a missing key
getSavingsData(failure) ==
  IF failure # "none" THEN Resolved(getDefaultSavingsData)
  ELSE OrElse("spendguardSavings", Resolved(StoreValue("spendguardSavings")),
              getDefaultSavingsData)

ReadFns == {"getPurchases", "getTotalIntercepts", "getSettings",
            "getSavingsData"}
KeyOf(fn) ==
  CASE fn = "getPurchases" -> "purchases"
    [] fn = "getTotalIntercepts" -> "totalIntercepts"
    [] fn = "getSettings" -> "settings"
    [] fn = "getSavingsData" -> "spendguardSavings"
ReadResult(fn, failure) ==
  CASE fn = "getPurchases" -> getPurchases(failure)
    [] fn = "getTotalIntercepts" -> getTotalIntercepts(failure)
    [] fn = "getSettings" -> getSettings(failure)
    [] fn = "getSavingsData" -> getSavingsData(failure)

\* one of the four reads is called and settles
ReadCall(fn, failure) ==
  /\ call' = [fn |-> fn, failure |-> failure,
              absent |-> KeyOf(fn) \in absentKeys,
              result |-> ReadResult(fn, failure)]
  /\ UNCHANGED allButCall

(* ----------------------------- nudge provider -------------------------- *)
\* A string is a sequence of characters; a value carries its typeof.
Str(text) == [type |-> "string", text |-> text]
ProviderValues ==
  {[type |-> "undefined"], [type |-> "object"], Str(<<>>), Str(<<" ">>),
   Str(<<"w", "a", "i", "t">>), Str(<<" ", "w", "a", "i", "t", " ">>)}

\* String.prototype.trim
RECURSIVE TrimLeft(_)
TrimLeft(t) ==
  IF t # <<>> /\ Head(t) = " " THEN TrimLeft(Tail(t)) ELSE t
RECURSIVE TrimRight(_)
TrimRight(t) ==
  IF t # <<>> /\ t[Len(t)] = " " THEN TrimRight(SubSeq(t, 1, Len(t) - 1))
  ELSE t
Trim(t) == TrimRight(TrimLeft(t))

\* getGenericNudge, utils/gptClient.ts lines 59-69: the fixed list, each
\* nudge kept as its opening words, and the index Math.floor(Math.random()
\* * nudges.length)
GenericNudges ==
  << <<"Before you buy">>, <<"Consider this">>, <<"Quick check">>,
     <<"Pause for a moment">>, <<"Before completing this purchase">>,
     <<"Consider waiting until tomorrow">> >>
getGenericNudge(r) == Str(GenericNudges[r + 1])

\* truthiness of a value
TruthyValue(v) ==
  v.type = "object" \/ (v.type = "string" /\ v.text # <<>>)

\* getGPTNudge, Chrome AI variant, lines 20-39.  api: chrome.summarize is
\* absent, throws or rejects, or returns v
ChromeAIOutcomes == {"absent", "throws", "returns"}
ChromeAINudge(api, v, r) ==
  IF api = "returns" /\ TruthyValue(v) /\ v.type = "string"
    THEN Resolved(Str(Trim(v.text)))
    ELSE Resolved(getGenericNudge(r))

\* a variant that returns the trimmed content even when it is empty
OpenAINudgeNoFallback(api, v, r) ==
  IF api = "content" /\ v.type = "string"
    THEN Resolved(Str(Trim(v.text)))
    ELSE Resolved(getGenericNudge(r))

\* getGPTNudge, OpenAI variant, lines 115-166.  api: no API key; fetch
\* throws; response.ok is false; response.json() throws; data.choices is
\* undefined (TypeError); data.choices is empty; choices[0].message.content
\* is v (undefined stops the optional chain; an object has no trim:
\* TypeError).  Every throw lands in the catch of lines 162-165.
OpenAIOutcomes ==
  {"noKey", "fetchThrows", "notOk", "jsonThrows", "noChoices",
   "emptyChoices", "content"}
OpenAINudge(api, v, r) ==
  IF api = "content" /\ v.type = "string" /\ Trim(v.text) # <<>>
    THEN Resolved(Str(Trim(v.text)))
    ELSE Resolved(getGenericNudge(r))

\* getGPTNudge is called and settles
NudgeCall(variant, api, v, r) ==
  /\ call' = [fn |-> "getGPTNudge", variant |-> variant, api |-> api,
              provided |-> v,
              result |-> IF variant = "ChromeAI" THEN ChromeAINudge(api, v, r)
                         ELSE OpenAINudge(api, v, r)]
  /\ UNCHANGED allButCall

(* ------------------------ React CooldownTimer ------------------------- *)
\* Two versions of the component: components/CooldownTimer.tsx ("plain":
\* timer effect on [seconds, onComplete], callbacks called directly) and
\* the one with a fade ("fade": timer effect on [timeLeft, handleComplete],
\* callbacks called 300 ms after setIsVisible(false)).  Time is counted in
\* seconds since the mount; NoTime marks a timer that is not set.
NoTime == 0 - 1
TimerVariants == {"plain", "fade"}

NoTimer ==
  [variant |-> "none", mounted |-> FALSE, seconds |-> 0, timeLeft |-> 0,
   canSkip |-> FALSE, isVisible |-> FALSE, container |-> FALSE, now |-> 0,
   skipAt |-> NoTime, tickAt |-> NoTime, pendingComplete |-> 0,
   pendingSkip |-> 0, pendingBack |-> 0, completes |-> 0, skips |-> 0,
   proceeds |-> 0, tookTime |-> FALSE, afterTake |-> 0, unloaded |-> FALSE]

\* delay of the skip timer set at time t with left seconds to go:
\* Math.min(5000, seconds * 1000), Math.min(5000, timeLeft * 1000)
SkipAfter(t, left) == t + Min(SkipUnlockSeconds, left)

\* the buttons of the component are on the page
Rendered(t) ==
  t.mounted /\ t.container /\ ~t.unloaded
    /\ (t.variant = "fade" => t.isVisible)

\* CheckoutInterceptor.showCooldown renders the component (lines 651-667);
\* useState and the first run of the timer effect
TimerMount(variant, seconds) ==
  /\ ~timer.mounted
  /\ timer' = [NoTimer EXCEPT !.variant = variant, !.mounted = TRUE,
                 !.seconds = seconds, !.timeLeft = seconds,
                 !.isVisible = TRUE, !.container = TRUE,
                 !.skipAt = SkipAfter(0, seconds), !.tickAt = 1]
  /\ UNCHANGED allButTimer

TimerSkipDue == timer.skipAt # NoTime /\ timer.now >= timer.skipAt
TimerTickDue == timer.tickAt # NoTime /\ timer.now >= timer.tickAt

\* one second passes
TimerAdvance ==
  /\ timer.mounted /\ ~timer.unloaded
  /\ timer.skipAt # NoTime \/ timer.tickAt # NoTime
  /\ ~TimerSkipDue /\ ~TimerTickDue
  /\ timer' = [timer EXCEPT !.now = @ + 1]
  /\ UNCHANGED allButTimer

\* skipTimer callback: setCanSkip(true)
TimerSkipTimeout ==
  /\ timer.mounted /\ ~timer.unloaded
  /\ TimerSkipDue
  /\ timer' = [timer EXCEPT !.canSkip = TRUE, !.skipAt = NoTime]
  /\ UNCHANGED allButTimer

\* the onComplete that showCooldown passes (lines 656-659): removeCooldown
\* (lines 669-673, the React root is not unmounted), then
\* proceedWithOriginalAction (lines 514-531)
OnComplete(t) ==
  [t EXCEPT !.container = FALSE, !.completes = @ + 1, !.proceeds = @ + 1,
            !.afterTake = IF t.tookTime THEN @ + 1 ELSE @]

\* the onSkip that showCooldown passes (lines 660-663)
OnSkip(t) ==
  [t EXCEPT !.container = FALSE, !.skips = @ + 1, !.proceeds = @ + 1,
            !.afterTake = IF t.tookTime THEN @ + 1 ELSE @]

\* countdown callback.  Of two timers due at the same time the skip timer,
\* set first, runs first.  plain: the interval goes on until it is cleared
\* at zero.  fade: every change of timeLeft re-runs the effect, which
\* clears both timers and, unless timeLeft is 0, sets them anew.
TimerTick ==
  /\ timer.mounted /\ ~timer.unloaded
  /\ TimerTickDue /\ ~TimerSkipDue
  /\ timer' =
       IF timer.variant = "plain"
         THEN IF timer.timeLeft <= 1
                THEN OnComplete([timer EXCEPT !.timeLeft = 0,
                                              !.tickAt = NoTime])
                ELSE [timer EXCEPT !.timeLeft = @ - 1, !.tickAt = @ + 1]
         ELSE IF timer.timeLeft <= 1
                THEN [timer EXCEPT !.timeLeft = 0, !.tickAt = NoTime,
                                   !.skipAt = NoTime, !.isVisible = FALSE,
                                   !.pendingComplete = @ + 1]
                ELSE [timer EXCEPT !.timeLeft = @ - 1,
                                   !.skipAt = SkipAfter(timer.now,
                                                        timer.timeLeft - 1),
                                   !.tickAt = timer.now + 1]
  /\ UNCHANGED allButTimer

\* 'Proceed Anyway'.  A user who has asked for more time clicks nothing
\* more.
TimerSkipClick ==
  /\ Rendered(timer) /\ timer.canSkip /\ ~timer.tookTime
  /\ timer' = IF timer.variant = "plain" THEN OnSkip(timer)
               ELSE [timer EXCEPT !.isVisible = FALSE, !.pendingSkip = @ + 1]
  /\ UNCHANGED allButTimer

\* window.history.back() leaves the page or, without an entry to go back
\* to or with a same-document entry, stays on it
HistoryBack(t) == {[t EXCEPT !.unloaded = leaves] : leaves \in BOOLEAN}

\* 'Take More Time to Decide'
TimerTakeTime ==
  /\ Rendered(timer) /\ ~timer.tookTime
  /\ IF timer.variant = "plain"
       THEN timer' \in HistoryBack([timer EXCEPT !.tookTime = TRUE])
       ELSE timer' = [timer EXCEPT !.tookTime = TRUE, !.isVisible = FALSE,
                                   !.pendingBack = @ + 1]
  /\ UNCHANGED allButTimer

\* the 300 ms timers of the fade version
TimerFadeComplete ==
  /\ timer.mounted /\ ~timer.unloaded /\ timer.pendingComplete > 0
  /\ timer' = OnComplete([timer EXCEPT !.pendingComplete = @ - 1])
  /\ UNCHANGED allButTimer

TimerFadeSkip ==
  /\ timer.mounted /\ ~timer.unloaded /\ timer.pendingSkip > 0
  /\ timer' = OnSkip([timer EXCEPT !.pendingSkip = @ - 1])
  /\ UNCHANGED allButTimer

TimerFadeBack ==
  /\ timer.mounted /\ ~timer.unloaded /\ timer.pendingBack > 0
  /\ timer' \in HistoryBack([timer EXCEPT !.pendingBack = @ - 1])
  /\ UNCHANGED allButTimer

(* ------------------------ extractPriceFromText ------------------------ *)
\* Texts are sequences of characters; the characters outside ASCII are
\* named: "euro", "pound", "yen". A price is counted in hundredths, so that
\* parseFloat('19.99') is 1999.
Digits == <<"0", "1", "2", "3", "4", "5", "6", "7", "8", "9">>
IsDigit(c) == \E d \in DOMAIN Digits : Digits[d] = c
DigitValue(c) == (CHOOSE d \in DOMAIN Digits : Digits[d] = c) - 1

\* \d{n} at position i
DigitsAt(t, i, n) ==
  i + n - 1 <= Len(t) /\ \A j \in i..(i + n - 1) : IsDigit(t[j])
\* (?:,\d{3}){g} at position i
GroupsAt(t, i, g) ==
  \A k \in 0..(g - 1) :
    /\ i + 4 * k <= Len(t)
    /\ t[i + 4 * k] = ","
    /\ DigitsAt(t, i + 4 * k + 1, 3)
\* \.\d{2} at position i
DecimalsAt(t, i) == i <= Len(t) /\ t[i] = "." /\ DigitsAt(t, i + 1, 2)

\* the ways \d{1,3}(?:,\d{3})*(?:\.\d{2})? matches at position i (lines
\* 1378-1383 and 1398); the pattern of line 1381 has no decimals
NumberMatches(t, i, decimals) ==
  {m \in [d : 1..3, g : 0..(Len(t) \div 4), dec : BOOLEAN] :
     /\ DigitsAt(t, i, m.d)
     /\ GroupsAt(t, i + m.d, m.g)
     /\ m.dec => decimals /\ DecimalsAt(t, i + m.d + 4 * m.g)}
\* the first position after match m that starts at i
MatchEnd(i, m) == i + m.d + 4 * m.g + (IF m.dec THEN 3 ELSE 0)
\* greedy quantifiers: the match the engine finds first
Rank(m) == m.d * 1000 + m.g * 2 + (IF m.dec THEN 1 ELSE 0)
Preferred(M) == CHOOSE m \in M : \A n \in M : Rank(n) <= Rank(m)
Capture(t, i, M) == Found(SubSeq(t, i, MatchEnd(i, Preferred(M)) - 1))

\* \s* at position i
RECURSIVE SkipSpaces(_, _)
SkipSpaces(t, i) ==
  IF i <= Len(t) /\ t[i] = " " THEN SkipSpaces(t, i + 1) ELSE i

LeastOf(P) == CHOOSE p \in P : \A q \in P : p <= q

\* matches[0][1] for a pattern with the symbol in front, lines 1378-1381
PrefixCapture(t, symbol, decimals) ==
  LET P == {p \in 1..Len(t) :
              /\ t[p] = symbol
              /\ NumberMatches(t, SkipSpaces(t, p + 1), decimals) # {}}
  IN IF P = {} THEN Null
     ELSE LET j == SkipSpaces(t, LeastOf(P) + 1)
          IN Capture(t, j, NumberMatches(t, j, decimals))

\* the matches at i that \s* and the code follow, any case (flag i)
SuffixMatches(t, i, code) ==
  {m \in NumberMatches(t, i, TRUE) :
     LET k == SkipSpaces(t, MatchEnd(i, m))
     IN /\ k + Len(code) - 1 <= Len(t)
        /\ toLowerCase(SubSeq(t, k, k + Len(code) - 1)) = toLowerCase(code)}

\* matches[0][1] for a pattern with the code behind, lines 1382-1383
SuffixCapture(t, code) ==
  LET P == {p \in 1..Len(t) : SuffixMatches(t, p, code) # {}}
  IN IF P = {} THEN Null
     ELSE Capture(t, LeastOf(P), SuffixMatches(t, LeastOf(P), code))

\* text.match of line 1398, its first group
NumberCapture(t) ==
  LET P == {p \in 1..Len(t) : NumberMatches(t, p, TRUE) # {}}
  IN IF P = {} THEN Null
     ELSE Capture(t, LeastOf(P), NumberMatches(t, LeastOf(P), TRUE))

currencyPatterns ==
  <<[symbol |-> <<"$">>, code |-> "USD", front |-> TRUE, decimals |-> TRUE],
    [symbol |-> <<"euro">>, code |-> "EUR", front |-> TRUE, decimals |-> TRUE],
    [symbol |-> <<"pound">>, code |-> "GBP", front |-> TRUE, decimals |-> TRUE],
    [symbol |-> <<"yen">>, code |-> "JPY", front |-> TRUE, decimals |-> FALSE],
    [symbol |-> <<"U", "S", "D">>, code |-> "USD", front |-> FALSE,
     decimals |-> TRUE],
    [symbol |-> <<"E", "U", "R">>, code |-> "EUR", front |-> FALSE,
     decimals |-> TRUE]>>

PatternCapture(t, pattern) ==
  IF pattern.front THEN PrefixCapture(t, pattern.symbol[1], pattern.decimals)
                   ELSE SuffixCapture(t, pattern.symbol)

\* parseFloat(priceStr.replace(/,/g, '')) of a captured number, in
\* hundredths
RECURSIVE DigitsValue(_)
DigitsValue(s) ==
  IF s = <<>> THEN 0
  ELSE DigitsValue(SubSeq(s, 1, Len(s) - 1)) * 10 + DigitValue(s[Len(s)])
parseFloat(s) ==
  IF Len(s) >= 3 /\ s[Len(s) - 2] = "."
    THEN DigitsValue(SelectSeq(s, IsDigit))
    ELSE DigitsValue(SelectSeq(s, IsDigit)) * 100

NoPrice == [price |-> Null, currency |-> Null]

\* the fallback, lines 1397-1404
BareNumberPrice(t) ==
  LET c == NumberCapture(t)
  IN IF /\ c.found
        /\ parseFloat(c.value) > 0
        /\ parseFloat(c.value) < PriceCeiling * 100
       THEN [price |-> Found(parseFloat(c.value)), currency |-> Null]
       ELSE NoPrice

\* the loop of lines 1386-1395 from pattern n on, then the fallback
RECURSIVE PriceFrom(_, _)
PriceFrom(t, n) ==
  IF n > Len(currencyPatterns) THEN BareNumberPrice(t)
  ELSE LET c == PatternCapture(t, currencyPatterns[n])
       IN IF c.found /\ parseFloat(c.value) > 0
            THEN [price |-> Found(parseFloat(c.value)),
                  currency |-> Found(currencyPatterns[n].code)]
            ELSE PriceFrom(t, n + 1)

\* extractPriceFromText, lines 1373-1407
extractPriceFromText(t) == IF t = <<>> THEN NoPrice ELSE PriceFrom(t, 1)

\* the texts extractPriceFromText is applied to: a text in front, a number
\* and a text behind
TextsInFront ==
  {<<>>,
   <<"$">>,
   <<"$", " ">>,
   <<"euro">>,
   <<"yen">>,
   <<"P", "r", "i", "c", "e", ":", " ">>}
NumberTexts ==
  {<<>>,
   <<"0">>,
   <<"5">>,
   <<"0", ".", "0", "0">>,
   <<"1", "9", ".", "9", "9">>,
   <<"9", "9", "9">>,
   <<"1", "2", "3", "4">>,
   <<"9", "9", "9", ",", "9", "9", "9">>,
   <<"9", "9", "9", ",", "9", "9", "9", ".", "9", "9">>,
   <<"1", ",", "0", "0", "0", ",", "0", "0", "0">>,
   <<"2", ",", "5", "0", "0", ",", "0", "0", "0", ".", "0", "0">>}
TextsBehind ==
  {<<>>,
   <<" ", "U", "S", "D">>,
   <<"e", "u", "r">>,
   <<" ", "r", "e", "v", "i", "e", "w", "s">>}
PriceTexts ==
  {a \o n \o b : a \in TextsInFront, n \in NumberTexts, b \in TextsBehind}

ExtractCall(t) ==
  /\ call = NoCall
  /\ call' = [fn |-> "extractPriceFromText", text |-> t,
              result |-> extractPriceFromText(t)]
  /\ UNCHANGED allButCall

(* ------------------------- categorizePurchase ------------------------- *)
\* categories, lines 1444-1480, in the order of the object's keys
categories ==
  <<[name |-> "electronics", keywords |-> <<
      <<"l", "a", "p", "t", "o", "p">>,
      <<"c", "o", "m", "p", "u", "t", "e", "r">>,
      <<"p", "h", "o", "n", "e">>,
      <<"t", "a", "b", "l", "e", "t">>,
      <<"h", "e", "a", "d", "p", "h", "o", "n", "e", "s">>,
      <<"s", "p", "e", "a", "k", "e", "r">>,
      <<"t", "v">>,
      <<"m", "o", "n", "i", "t", "o", "r">>,
      <<"c", "a", "m", "e", "r", "a">>,
      <<"g", "a", "m", "i", "n", "g">>,
      <<"c", "o", "n", "s", "o", "l", "e">>,
      <<"i", "p", "h", "o", "n", "e">>,
      <<"a", "n", "d", "r", "o", "i", "d">>,
      <<"m", "a", "c", "b", "o", "o", "k">>,
      <<"i", "p", "a", "d">>,
      <<"w", "a", "t", "c", "h">>,
      <<"e", "l", "e", "c", "t", "r", "o", "n", "i", "c", "s">>,
      <<"t", "e", "c", "h">>,
      <<"g", "a", "d", "g", "e", "t">>,
      <<"d", "e", "v", "i", "c", "e">>,
      <<"s", "m", "a", "r", "t">>,
      <<"w", "i", "r", "e", "l", "e", "s", "s">>,
      <<"b", "l", "u", "e", "t", "o", "o", "t", "h">>>>],
    [name |-> "clothing", keywords |-> <<
      <<"s", "h", "i", "r", "t">>,
      <<"p", "a", "n", "t", "s">>,
      <<"d", "r", "e", "s", "s">>,
      <<"s", "h", "o", "e", "s">>,
      <<"j", "a", "c", "k", "e", "t">>,
      <<"c", "o", "a", "t">>,
      <<"j", "e", "a", "n", "s">>,
      <<"s", "w", "e", "a", "t", "e", "r">>,
      <<"h", "o", "o", "d", "i", "e">>,
      <<"s", "n", "e", "a", "k", "e", "r", "s">>,
      <<"b", "o", "o", "t", "s">>,
      <<"c", "l", "o", "t", "h", "i", "n", "g">>,
      <<"f", "a", "s", "h", "i", "o", "n">>,
      <<"a", "p", "p", "a", "r", "e", "l">>,
      <<"w", "e", "a", "r">>,
      <<"o", "u", "t", "f", "i", "t">>,
      <<"s", "t", "y", "l", "e">>,
      <<"f", "o", "o", "t", "w", "e", "a", "r">>,
      <<"a", "c", "c", "e", "s", "s", "o", "r", "y">>,
      <<"h", "a", "t">>,
      <<"b", "a", "g">>,
      <<"j", "e", "w", "e", "l", "r", "y">>>>],
    [name |-> "home", keywords |-> <<
      <<"f", "u", "r", "n", "i", "t", "u", "r", "e">>,
      <<"c", "h", "a", "i", "r">>,
      <<"t", "a", "b", "l", "e">>,
      <<"b", "e", "d">>,
      <<"s", "o", "f", "a">>,
      <<"l", "a", "m", "p">>,
      <<"d", "e", "c", "o", "r">>,
      <<"k", "i", "t", "c", "h", "e", "n">>,
      <<"b", "a", "t", "h", "r", "o", "o", "m">>,
      <<"b", "e", "d", "r", "o", "o", "m">>,
      <<"l", "i", "v", "i", "n", "g">>,
      <<"d", "i", "n", "i", "n", "g">>,
      <<"s", "t", "o", "r", "a", "g", "e">>,
      <<"o", "r", "g", "a", "n", "i", "z", "a", "t", "i", "o", "n">>,
      <<"h", "o", "m", "e">>,
      <<"h", "o", "u", "s", "e">>,
      <<"a", "p", "a", "r", "t", "m", "e", "n", "t">>,
      <<"r", "o", "o", "m">>,
      <<"s", "p", "a", "c", "e">>,
      <<"i", "n", "t", "e", "r", "i", "o", "r">>,
      <<"d", "e", "s", "i", "g", "n">>>>],
    [name |-> "health", keywords |-> <<
      <<"v", "i", "t", "a", "m", "i", "n">>,
      <<"s", "u", "p", "p", "l", "e", "m", "e", "n", "t">>,
      <<"m", "e", "d", "i", "c", "i", "n", "e">>,
      <<"h", "e", "a", "l", "t", "h">>,
      <<"f", "i", "t", "n", "e", "s", "s">>,
      <<"w", "e", "l", "l", "n", "e", "s", "s">>,
      <<"b", "e", "a", "u", "t", "y">>,
      <<"s", "k", "i", "n", "c", "a", "r", "e">>,
      <<"c", "o", "s", "m", "e", "t", "i", "c">>,
      <<"m", "a", "k", "e", "u", "p">>,
      <<"p", "e", "r", "s", "o", "n", "a", "l">>,
      <<"c", "a", "r", "e">>,
      <<"h", "y", "g", "i", "e", "n", "e">>>>],
    [name |-> "books", keywords |-> <<
      <<"b", "o", "o", "k">>,
      <<"e", "b", "o", "o", "k">>,
      <<"k", "i", "n", "d", "l", "e">>,
      <<"n", "o", "v", "e", "l">>,
      <<"t", "e", "x", "t", "b", "o", "o", "k">>,
      <<"m", "a", "g", "a", "z", "i", "n", "e">>,
      <<"j", "o", "u", "r", "n", "a", "l">>,
      <<"r", "e", "a", "d", "i", "n", "g">>,
      <<"l", "i", "t", "e", "r", "a", "t", "u", "r", "e">>,
      <<"e", "d", "u", "c", "a", "t", "i", "o", "n">>,
      <<"l", "e", "a", "r", "n", "i", "n", "g">>,
      <<"s", "t", "u", "d", "y">>,
      <<"a", "c", "a", "d", "e", "m", "i", "c">>>>],
    [name |-> "food", keywords |-> <<
      <<"f", "o", "o", "d">>,
      <<"s", "n", "a", "c", "k">>,
      <<"d", "r", "i", "n", "k">>,
      <<"c", "o", "f", "f", "e", "e">>,
      <<"t", "e", "a">>,
      <<"m", "e", "a", "l">>,
      <<"g", "r", "o", "c", "e", "r", "y">>,
      <<"r", "e", "s", "t", "a", "u", "r", "a", "n", "t">>,
      <<"d", "e", "l", "i", "v", "e", "r", "y">>,
      <<"t", "a", "k", "e", "o", "u", "t">>,
      <<"d", "i", "n", "i", "n", "g">>,
      <<"c", "u", "i", "s", "i", "n", "e">>,
      <<"r", "e", "c", "i", "p", "e">>,
      <<"i", "n", "g", "r", "e", "d", "i", "e", "n", "t">>>>],
    [name |-> "entertainment", keywords |-> <<
      <<"g", "a", "m", "e">>,
      <<"m", "o", "v", "i", "e">>,
      <<"m", "u", "s", "i", "c">>,
      <<"s", "t", "r", "e", "a", "m", "i", "n", "g">>,
      <<"s", "u", "b", "s", "c", "r", "i", "p", "t", "i", "o", "n">>,
      <<"t", "i", "c", "k", "e", "t">>,
      <<"e", "v", "e", "n", "t">>,
      <<"c", "o", "n", "c", "e", "r", "t">>,
      <<"s", "h", "o", "w">>,
      <<"e", "n", "t", "e", "r", "t", "a", "i", "n", "m", "e", "n", "t">>,
      <<"h", "o", "b", "b", "y">>,
      <<"s", "p", "o", "r", "t">>,
      <<"r", "e", "c", "r", "e", "a", "t", "i", "o", "n">>>>],
    [name |-> "travel", keywords |-> <<
      <<"f", "l", "i", "g", "h", "t">>,
      <<"h", "o", "t", "e", "l">>,
      <<"t", "r", "a", "v", "e", "l">>,
      <<"v", "a", "c", "a", "t", "i", "o", "n">>,
      <<"t", "r", "i", "p">>,
      <<"b", "o", "o", "k", "i", "n", "g">>,
      <<"r", "e", "n", "t", "a", "l">>,
      <<"a", "c", "c", "o", "m", "m", "o", "d", "a", "t", "i", "o", "n">>,
      <<"t", "r", "a", "n", "s", "p", "o", "r", "t", "a", "t", "i", "o", "n">>,
      <<"t", "o", "u", "r", "i", "s", "m">>,
      <<"l", "u", "g", "g", "a", "g", "e">>,
      <<"t", "r", "i", "p">>>>]>>

\* (textToAnalyze.match(new RegExp(keyword, 'g')) || []).length from
\* position i on: the matches are found left to right and do not overlap
RECURSIVE CountMatches(_, _, _)
CountMatches(t, k, i) ==
  IF i + Len(k) - 1 > Len(t) THEN 0
  ELSE IF SubSeq(t, i, i + Len(k) - 1) = k
         THEN 1 + CountMatches(t, k, i + Len(k))
         ELSE CountMatches(t, k, i + 1)

\* keywords.reduce, lines 1493-1496, over the first n keywords
RECURSIVE KeywordScore(_, _, _)
KeywordScore(t, keywords, n) ==
  IF n = 0 THEN 0
  ELSE KeywordScore(t, keywords, n - 1) + CountMatches(t, keywords[n], 1)

\* Object.entries(categoryScores), lines 1490-1500
categoryScores(t) ==
  [c \in DOMAIN categories |->
     [name |-> categories[c].name,
      score |-> KeywordScore(t, categories[c].keywords,
                             Len(categories[c].keywords))]]

\* sort(([,a], [,b]) => b - a), line 1501: entries with equal scores keep
\* their order
RECURSIVE SortByScore(_)
SortByScore(s) ==
  IF s = <<>> THEN <<>>
  ELSE LET x == s[Len(s)]
           sorted == SortByScore(SubSeq(s, 1, Len(s) - 1))
           n == Cardinality({j \in DOMAIN sorted : sorted[j].score >= x.score})
       IN SubSeq(sorted, 1, n) \o <<x>> \o SubSeq(sorted, n + 1, Len(sorted))

\* textToAnalyze, lines 1482-1487; an argument that is undefined is <<>>
textToAnalyze(url, productName, pageContent, title) ==
  toLowerCase(url) \o <<" ">> \o toLowerCase(productName) \o <<" ">>
    \o toLowerCase(pageContent) \o <<" ">> \o toLowerCase(title)

\* lines 1500-1503
BestCategory(scores) ==
  LET bestCategory == SortByScore(scores)[1]
  IN IF bestCategory.score > 0 THEN bestCategory.name ELSE "general"

\* categorizePurchase, lines 1443-1504
categorizePurchase(url, productName, pageContent, title) ==
  BestCategory(categoryScores(
    textToAnalyze(url, productName, pageContent, title)))

\* the arguments categorizePurchase is applied to, and document.title
PageUrls ==
  {<<"s", "h", "o", "p", ".", "c", "o", "m">>,
   <<"s", "h", "o", "p", ".", "c", "o", "m", "/", "l", "a", "p", "t", "o", "p">>}
ProductNames ==
  {<<>>,
   <<"S", "h", "i", "r", "t">>,
   <<"D", "i", "n", "i", "n", "g", " ", "t", "a", "b", "l", "e">>,
   <<"L", "a", "p", "t", "o", "p", " ", "b", "a", "g">>}
PageContents ==
  {<<>>,
   <<"b", "o", "o", "k", "i", "n", "g">>,
   <<"l", "a", "p", "t", "o", "p">>}
PageTitles ==
  {<<>>,
   <<"T", "r", "i", "p">>,
   <<"e", "B", "o", "o", "k">>}

CategorizeCall(url, productName, pageContent, title) ==
  /\ call = NoCall
  /\ call' = [fn |-> "categorizePurchase",
              text |-> textToAnalyze(url, productName, pageContent, title),
              scores |-> categoryScores(
                textToAnalyze(url, productName, pageContent, title)),
              result |-> categorizePurchase(url, productName, pageContent,
                                            title)]
  /\ UNCHANGED allButCall

(* ------- the Set-based interceptors and the click they dispatch ------- *)
\* the two interceptors that keep a Set of guarded elements and never remove
\* a listener: CheckoutInterceptor (intercept.tsx lines 78-283) and the first
\* LightweightInterceptor (part_007 lines 20-420). One checkout button is
\* followed.
SetVariants == {"CheckoutInterceptor", "LightweightInterceptor"}

\* variant "none": no interceptor constructed yet. inSet: the button is in
\* interceptedButtons; listeners: capture click listeners on the button;
\* awaiting: interceptClick handlers before showCooldown; shown: overlays in
\* the document awaiting a decision; fading: removeCooldown timers pending;
\* cooldowns, records, proceeds: showCooldown calls, proceeded=false records
\* and proceeded=true records so far; caught: dispatched clicks that a
\* listener of the interceptor caught; clicks: clicks of the user
NoSetGuard ==
  [variant |-> "none", inSet |-> FALSE, listeners |-> 0, awaiting |-> 0,
   shown |-> 0, fading |-> 0, active |-> FALSE, cooldowns |-> 0,
   records |-> 0, proceeds |-> 0, caught |-> 0, clicks |-> 0]

\* button.addEventListener('click', interceptClick, true) with a new
\* closure: intercept.tsx line 174, part_007 line 113
addInterception(g) ==
  [g EXCEPT !.inSet = TRUE, !.listeners = g.listeners + 1]

\* the scan: interceptCheckoutButtons lines 130-140, scanForCheckoutButtons
\* part_007 lines 65-72
SetScanResult(g) == IF g.inSet THEN g ELSE addInterception(g)

\* a click event on the button reaches every capture listener on it
ClickEvent(g) == [g EXCEPT !.awaiting = g.awaiting + g.listeners]

\* the click of proceedWithOriginalAction (lines 200-215: button.click() or
\* dispatchEvent) and of proceedWithClick (part_007 lines 368-374)
DispatchClick(g) ==
  IF g.listeners > 0 THEN [ClickEvent(g) EXCEPT !.caught = g.caught + 1]
                     ELSE g

\* init(): lines 82-85, part_007 lines 24-27
SetInit(variant) ==
  /\ setGuard.variant = "none"
  /\ setGuard' = SetScanResult([setGuard EXCEPT !.variant = variant])
  /\ UNCHANGED allButSetGuard

\* a later scan: the debounced checkCurrentPage of lines 87-118, the
\* observer callback of part_007 lines 29-34 (not while cooldownActive)
SetScan ==
  /\ setGuard.variant # "none"
  /\ setGuard.variant = "LightweightInterceptor" => ~setGuard.active
  /\ ~setGuard.inSet
  /\ setGuard' = SetScanResult(setGuard)
  /\ UNCHANGED allButSetGuard

\* the user clicks the button
SetUserClick ==
  /\ setGuard.listeners > 0
  /\ setGuard.clicks < MaxClicks
  /\ setGuard' = [ClickEvent(setGuard) EXCEPT !.clicks = setGuard.clicks + 1]
  /\ UNCHANGED allButSetGuard

\* interceptClick after its awaits: the proceeded=false record is sent and
\* showCooldown runs (lines 151-172, part_007 lines 99-111 and 147-148)
SetShowCooldown ==
  /\ setGuard.awaiting > 0
  /\ setGuard.cooldowns < MaxReplays
  /\ setGuard' = [setGuard EXCEPT !.awaiting = @ - 1, !.records = @ + 1,
                                  !.cooldowns = @ + 1, !.shown = @ + 1,
                                  !.active = TRUE]
  /\ UNCHANGED allButSetGuard

\* removeCooldown: lines 267-272 remove the container at once; part_007
\* lines 353-360 start the 300 ms timer that clears cooldownActive
SetRemoveCooldown(g) ==
  IF g.variant = "LightweightInterceptor"
    THEN [g EXCEPT !.shown = g.shown - 1, !.fading = g.fading + 1]
    ELSE [g EXCEPT !.shown = g.shown - 1]

\* the cooldown resolves to proceed (onComplete or onSkip, lines 255-262;
\* the skip button, part_007 lines 309-314): removeCooldown, then
\* proceedWithOriginalAction (lines 185-216) or proceedWithClick (part_007
\* lines 362-375): the proceeded=true record, interceptedButtons.delete and
\* the click
SetProceed ==
  /\ setGuard.shown > 0
  /\ setGuard' = DispatchClick([SetRemoveCooldown(setGuard) EXCEPT
                                  !.proceeds = @ + 1, !.inSet = FALSE])
  /\ UNCHANGED allButSetGuard

\* 'wait' on the overlay, part_007 lines 316-318
SetAbandon ==
  /\ setGuard.variant = "LightweightInterceptor"
  /\ setGuard.shown > 0
  /\ setGuard' = SetRemoveCooldown(setGuard)
  /\ UNCHANGED allButSetGuard

\* the 300 ms timer of removeCooldown, part_007 lines 356-359
SetFadeTimeout ==
  /\ setGuard.fading > 0
  /\ setGuard' = [setGuard EXCEPT !.fading = @ - 1, !.active = FALSE]
  /\ UNCHANGED allButSetGuard

(* ---------- CheckoutInterceptor: the observer and debounce ------------ *)
\* now: milliseconds since init(); timers: due times of the pending
\* timeouts, in the order they were set; batches: arrival times of the
\* mutation batches with added nodes; runs: times checkCurrentPage ran from
\* a timeout
NoDebounce == [now |-> 0, timers |-> <<>>, batches |-> <<>>, runs |-> <<>>]

\* debounce(func, wait)(), lines 444-454 (108-118): executedFunction of a
\* closure made by this call, so its timeout is unset: clearTimeout of it
\* clears nothing and one more timer is set
debounceCall(d) == [d EXCEPT !.timers = Append(d.timers, d.now + DebounceWait)]

TimerDue(d) == \E j \in DOMAIN d.timers : d.timers[j] <= d.now

\* the observer callback for a batch that added nodes, lines 424-436
\* (88-100)
MutationBatch ==
  /\ Len(debounce.batches) < MaxBatches
  /\ ~TimerDue(debounce)
  /\ debounce' = debounceCall([debounce EXCEPT
                                 !.batches = Append(@, debounce.now)])
  /\ UNCHANGED allButDebounce

\* time passes while no timeout is due
DebounceAdvance ==
  /\ ~TimerDue(debounce)
  /\ debounce.now + TimeStep <= MaxTime
  /\ debounce' = [debounce EXCEPT !.now = @ + TimeStep]
  /\ UNCHANGED allButDebounce

\* later(), lines 447-450 (111-114): the oldest due timeout fires and
\* checkCurrentPage runs
DebounceLater ==
  /\ debounce.timers # <<>>
  /\ Head(debounce.timers) <= debounce.now
  /\ debounce' = [debounce EXCEPT !.timers = Tail(@),
                                  !.runs = Append(@, debounce.now)]
  /\ UNCHANGED allButDebounce

\* the interceptor as constructed (lines 974-979), an installed store
InitInterceptor ==
  /\ started = FALSE
  /\ inDom \in SUBSET Buttons
  /\ cooldownActive = FALSE
  /\ interceptedButtons = {}
  /\ processedButtons = {}
  /\ eventListeners = {}
  /\ clickListeners = [b \in Buttons |-> 0]
  /\ reintercepted = FALSE
  /\ inst = <<>>
  /\ msgs = <<>>
  /\ totalIntercepts = 0
  /\ ledger = getDefaultSavingsData
  /\ pagePrice \in Prices
  /\ monthKey = FirstMonth
  /\ clock = 0
  /\ settings = DefaultCooldown
  /\ guardSettings = [b \in Buttons |-> 0]
  /\ absentKeys = {}
  /\ call = NoCall
  /\ timer = NoTimer
  /\ debounce = NoDebounce
  /\ setGuard = NoSetGuard

InitPage ==
  /\ InitInterceptor
  /\ page = ShopPage
  /\ elements = ShopElements
  /\ formButtons = {}

\* init(), lines 981-985
InitCall ==
  /\ ~started
  /\ started' = TRUE
  /\ SetRegistry(ScanRegistry(inDom, Registry))
  /\ UNCHANGED <<inDom, cooldownActive, reintercepted, inst, clicksLeft,
                 msgs, storeVars, ledger, envVars>>

\* the page changes its element tree; the observer callback follows
Mutation ==
  /\ \E dom \in SUBSET Buttons :
       /\ inDom' = dom
       /\ SetRegistry(ObserverRegistry(dom, cooldownActive, Registry))
  /\ UNCHANGED <<started, cooldownActive, reintercepted, inst, clicksLeft,
                 msgs, storeVars, ledger, envVars>>

\* interceptClick up to the first await, lines 1130-1134
UserClick(b) ==
  /\ b \in inDom
  /\ clickListeners[b] > 0
  /\ clicksLeft > 0
  /\ clicksLeft' = clicksLeft - 1
  /\ inst' = Append(inst, NewInst(b))
  /\ UNCHANGED <<pageVars, msgs, storeVars, ledger, envVars>>

\* getSettings resolves with cooldownSeconds = seconds (lines 1553-1581);
\* interceptClick continues with extractSimpleContext and recordIntercept
\* (lines 1135-1137, 1583-1604) up to the storage read of recordSavings, or,
\* without a price, on into showCooldown up to its first await (lines
\* 1260-1264).
SettingsResolved(i, seconds) ==
  /\ inst[i].pc = "settings"
  /\ msgs' = msgs @@ RecordInterceptMsgs(i, pagePrice)
  /\ IF pagePrice # 0
       THEN /\ inst' = [inst EXCEPT ![i] = [@ EXCEPT
                           !.seconds = seconds,
                           !.price = pagePrice, !.pc = "savingsGet"]]
            /\ UNCHANGED cooldownActive
       ELSE /\ inst' = [inst EXCEPT ![i] = [@ EXCEPT
                           !.seconds = seconds,
                           !.price = pagePrice, !.pc = "prepare"]]
            /\ cooldownActive' = TRUE
  /\ UNCHANGED <<started, inDom, registryVars, reintercepted, clicksLeft,
                 storeVars, ledger, envVars>>

\* the callback of sendMessage gets response.settings (lines 1563-1564)
SettingsResponse(i) == SettingsResolved(i, cooldownSeconds)

\* the callback runs with chrome.runtime.lastError set or without
\* response.settings, or sendMessage throws: the default settings are
\* resolved (lines 1558-1562, 1565-1578).  The listener of
\* background/index.ts, lines 23-53, returns undefined for 'getSettings',
\* which closes the channel and gives this outcome.
SettingsError(i) == SettingsResolved(i, DefaultCooldown)

\* the listener that returns true for every action (async variant of the
\* background listener, lines 34-57) keeps the channel of 'getSettings' open
\* and never calls sendResponse: the callback of line 1557 is not invoked
\* and the promise of getSettings stays pending.  interceptClick has already
\* called preventDefault and stopPropagation (lines 1131-1132).
SettingsUnanswered(i) ==
  /\ inst[i].pc = "settings"
  /\ inst' = [inst EXCEPT ![i] = [@ EXCEPT !.pc = "pending"]]
  /\ UNCHANGED <<pageVars, clicksLeft, msgs, storeVars, ledger, envVars>>

\* getSavingsData answers (lines 1665-1681); recordSavings folds the price
\* into the object it read and calls saveSavingsData (lines 1630-1659)
SavingsRead(i) ==
  /\ inst[i].pc = "savingsGet"
  /\ inst' = [inst EXCEPT ![i] = [@ EXCEPT !.pc = "savingsSet",
                 !.month = monthKey,
                 !.data = FoldSavings(ledger, inst[i].price,
                                      inst[i].category, monthKey)]]
  /\ UNCHANGED <<pageVars, clicksLeft, msgs, storeVars, ledger, envVars>>

\* storage.set of saveSavingsData completes (lines 1683-1697); the savings
\* notification is appended (line 1662, observer callback), then showCooldown
\* starts (lines 1139, 1260-1264).  stale marks the calls that had read the
\* ledger before this write and have not written yet.
SavingsWrite(i) ==
  /\ inst[i].pc = "savingsSet"
  /\ ledger' = inst[i].data
  /\ SetRegistry(ObserverRegistry(inDom, cooldownActive, Registry))
  /\ cooldownActive' = TRUE
  /\ inst' = [j \in DOMAIN inst |->
       IF j = i
         THEN [inst[j] EXCEPT !.pc = "prepare", !.data = getDefaultSavingsData]
         ELSE IF inst[j].pc = "savingsSet"
                THEN [inst[j] EXCEPT !.stale = TRUE]
                ELSE inst[j]]
  /\ UNCHANGED <<started, inDom, reintercepted, clicksLeft, msgs, storeVars,
                 envVars>>

\* an unlock delay that ignores the cooldown length
SkipDelayFixed(seconds) == SkipUnlockSeconds

\* delay of the skip-unlock timeout, line 1445, in seconds
SkipDelay(seconds) == Min(SkipUnlockSeconds, seconds)

\* the awaits of showCooldown are over (settings, nudge, analytics, lines
\* 1264-1270): the overlay is appended and both timers are started (lines
\* 1272-1460); appendChild is followed by the observer callback
ShowOverlay(i) ==
  /\ inst[i].pc = "prepare"
  /\ inst' = [inst EXCEPT ![i] = [@ EXCEPT !.pc = "shown",
                 !.overlay = "shown", !.remaining = inst[i].seconds,
                 !.canSkip = FALSE, !.now = 0, !.skipTimer = TRUE,
                 !.interval = TRUE]]
  /\ SetRegistry(ObserverRegistry(inDom, cooldownActive, Registry))
  /\ UNCHANGED <<started, inDom, cooldownActive, reintercepted, clicksLeft,
                 msgs, storeVars, ledger, envVars>>

\* number of interval callbacks of overlay r that have run
Ticks(r) == r.seconds - r.remaining
SkipDue(r) == r.skipTimer /\ r.now >= SkipDelay(r.seconds)
TickDue(r) == r.interval /\ r.now >= Ticks(r) + 1

\* one second passes for the timers of overlay i
AdvanceClock(i) ==
  /\ inst[i].pc = "shown"
  /\ inst[i].skipTimer \/ inst[i].interval
  /\ ~SkipDue(inst[i]) /\ ~TickDue(inst[i])
  /\ inst' = [inst EXCEPT ![i] = [@ EXCEPT !.now = @ + 1]]
  /\ UNCHANGED <<pageVars, clicksLeft, msgs, storeVars, ledger, envVars>>

\* setTimeout callback, lines 1442-1445
SkipTimeout(i) ==
  /\ inst[i].pc = "shown"
  /\ SkipDue(inst[i])
  /\ inst' = [inst EXCEPT ![i] = [@ EXCEPT !.canSkip = TRUE,
                 !.skipTimer = FALSE,
                 !.staleFired = @ \/ inst[i].abandoned]]
  /\ UNCHANGED <<pageVars, clicksLeft, msgs, storeVars, ledger, envVars>>

\* an interval callback that never clears the interval
IntervalTickNoClear(i) ==
  /\ inst[i].pc = "shown"
  /\ TickDue(inst[i])
  /\ inst' = [inst EXCEPT ![i] = [@ EXCEPT !.remaining = @ - 1,
                 !.staleFired = @ \/ inst[i].abandoned]]
  /\ UNCHANGED <<pageVars, clicksLeft, msgs, storeVars, ledger, envVars>>

\* setInterval callback, lines 1447-1460
IntervalTick(i) ==
  /\ inst[i].pc = "shown"
  /\ TickDue(inst[i])
  /\ inst' = [inst EXCEPT ![i] = [@ EXCEPT !.remaining = @ - 1,
                 !.interval = ~(inst[i].remaining - 1 <= 0),
                 !.staleFired = @ \/ inst[i].abandoned]]
  /\ UNCHANGED <<pageVars, clicksLeft, msgs, storeVars, ledger, envVars>>

\* removeCooldown, lines 1506-1513: the overlay fades, a 300 ms timer is set
removeCooldown(r) ==
  [r EXCEPT !.overlay = "fading", !.fadeTimers = @ + 1]

\* a release that leaves the click listener attached
ReleaseGuardKeepListener(b, reg) ==
  [ib |-> reg.ib \ {b}, pb |-> reg.pb \cup {b}, el |-> reg.el, cl |-> reg.cl]

\* proceedWithClick, lines 1519-1527: the registry after the guard is released
ReleaseGuard(b, reg) ==
  [ib |-> reg.ib \ {b},
   pb |-> reg.pb \cup {b},
   el |-> reg.el \ {b},
   cl |-> [reg.cl EXCEPT ![b] = IF b \in reg.el THEN @ - 1 ELSE @]]

\* the overlay is in the document (opacity 0 while fading, still clickable)
OverlayInDom(r) == r.overlay \in {"shown", "fading"}

\* The synthetic click of lines 1530-1538 on a submit button inside a form
\* either starts the form's submission (activation behaviour, or the page's
\* own submit handler) or does nothing (the page wants a trusted event);
\* on any other element no form is involved.
ClickOutcomes(b) == IF b \in formButtons THEN BOOLEAN ELSE {FALSE}

\* skip button click handler, lines 1462-1467, with onComplete =
\* proceedWithClick(button), lines 1515-1538.  The user can click the skip
\* button once the timeout has set its display to block.
SkipClick(i) ==
  /\ OverlayInDom(inst[i])
  /\ inst[i].canSkip
  /\ inst[i].fadeTimers < MaxOverlayClicks
  /\ IF inst[i].remaining <= 0 \/ inst[i].canSkip
       THEN \E submitted \in ClickOutcomes(inst[i].btn) :
            LET b == inst[i].btn
                reg == ReleaseGuard(b, Registry)
                caught == reg.cl[b] > 0
                r == [removeCooldown(inst[i]) EXCEPT
                        !.proceeds = @ + 1,
                        !.clickSubmits =
                           IF submitted /\ ~caught THEN @ + 1 ELSE @,
                        !.submitTimers = IF b \in formButtons
                                           THEN @ + 1 ELSE @]
                insts == [inst EXCEPT ![i] = r]
            IN /\ msgs' = msgs @@ (MsgId(i, "proceed", r.proceeds) :>
                                     AddPurchaseMsg(TRUE, 0))
               /\ SetRegistry(reg)
               /\ reintercepted' = (reintercepted \/ caught)
               /\ inst' = IF caught THEN Append(insts, NewInst(b)) ELSE insts
       ELSE UNCHANGED <<inst, registryVars, reintercepted, msgs>>
  /\ UNCHANGED <<started, inDom, cooldownActive, clicksLeft, storeVars, ledger,
                 envVars>>

\* 'Take More Time to Decide' click handler, lines 1469-1471
WaitClick(i) ==
  /\ OverlayInDom(inst[i])
  /\ inst[i].fadeTimers < MaxOverlayClicks
  /\ inst' = [inst EXCEPT ![i] = [removeCooldown(inst[i]) EXCEPT
                 !.abandoned = TRUE]]
  /\ UNCHANGED <<pageVars, clicksLeft, msgs, storeVars, ledger, envVars>>

\* the 300 ms timer of removeCooldown, lines 1509-1512; removing an overlay
\* that is in the document is followed by the observer callback
FadeTimeout(i) ==
  /\ inst[i].fadeTimers > 0
  /\ inst' = [inst EXCEPT ![i] = [@ EXCEPT !.overlay = "removed",
                 !.fadeTimers = @ - 1]]
  /\ cooldownActive' = FALSE
  /\ SetRegistry(IF OverlayInDom(inst[i])
                   THEN ObserverRegistry(inDom, FALSE, Registry)
                   ELSE Registry)
  /\ UNCHANGED <<started, inDom, reintercepted, clicksLeft, msgs, storeVars,
                 ledger, envVars>>

\* the 100 ms timer of proceedWithClick, lines 1543-1549: form.submit()
FormSubmit(r) ==
  [r EXCEPT !.submitTimers = @ - 1, !.formSubmits = @ + 1]

FormSubmitTimeout(i) ==
  /\ inst[i].submitTimers > 0
  /\ inst' = [inst EXCEPT ![i] = FormSubmit(inst[i])]
  /\ UNCHANGED <<pageVars, clicksLeft, msgs, storeVars, ledger, envVars>>

\* isPurchaseButton is applied to element b
ClassifyCall(b) ==
  /\ call' = [fn |-> "isPurchaseButton", element |-> elements[b],
              result |-> isPurchaseButton(b)]
  /\ UNCHANGED allButCall

(* --------------------- background message handler --------------------- *)
\* newPurchase, lines 36-39 (utils/storage lines 90-93): the purchase of
\* request k with the id Date.now().toString().  The id is kept as the
\* number of milliseconds: toString maps different numbers to different
\* strings.  req names the request the entry came from.
PurchaseEntry(k, m) ==
  [id |-> clock, req |-> k, url |-> m.url, timestamp |-> m.timestamp,
   reason |-> m.reason, intercepted |-> m.intercepted,
   proceeded |-> m.proceeded, amount |-> m.amount]

\* reading a property of an object
Field(e, f) == IF f \in DOMAIN e THEN e[f] ELSE Undefined

\* a store that keeps no reason at all
StripReason(e) ==
  [id |-> e.id, req |-> e.req, url |-> e.url, timestamp |-> e.timestamp,
   intercepted |-> e.intercepted, proceeded |-> e.proceeded,
   amount |-> e.amount]

\* chrome.storage.local.set keeps the serialisable part of a value: a
\* property that is undefined is not stored
Strip(e) ==
  IF "reason" \in DOMAIN e /\ e.reason = Undefined
    THEN [id |-> e.id, req |-> e.req, url |-> e.url,
          timestamp |-> e.timestamp, intercepted |-> e.intercepted,
          proceeded |-> e.proceeded, amount |-> e.amount]
    ELSE e
StorageSet(list) == [j \in DOMAIN list |-> Strip(list[j])]

\* a handler that never drops an entry
AddPurchaseResultNoCap(list, entry) == <<entry>> \o list

\* a handler that appends the entry instead of putting it first
AddPurchaseResultPush(list, entry) == Take(list \o <<entry>>, PurchasesCap)

\* addPurchase handler, lines 35-48: unshift, then keep the first 100
AddPurchaseResult(list, entry) == Take(<<entry>> \o list, PurchasesCap)

\* a handler that counts every interception twice
IncrementResultTwice(n) == n + 2

\* incrementIntercepts handler, line 26
IncrementResult(n) == n + 1

SameKey(h, k) == msgs[h].action = msgs[k].action

\* the requests after request k has read the value of its key
AfterRead(k, m) ==
  [h \in DOMAIN msgs \cup {k} |->
     IF h = k
       THEN [m EXCEPT !.phase = "read",
               !.snap = IF m.action = "addPurchase"
                          THEN purchases ELSE <<totalIntercepts>>,
               !.overlapped = (\E o \in DOMAIN msgs :
                                 /\ o # k /\ msgs[o].action = m.action
                                 /\ msgs[o].phase = "read")]
       ELSE IF msgs[h].action = m.action /\ msgs[h].phase = "read"
              THEN [msgs[h] EXCEPT !.overlapped = TRUE]
              ELSE msgs[h]]

\* rank of the next write to the key of request k
WriteRank(k) ==
  1 + Cardinality({h \in DOMAIN msgs :
                     SameKey(h, k) /\ msgs[h].phase = "done"})

\* the requests after request k has written
AfterWrite(k) ==
  [msgs EXCEPT ![k] = [@ EXCEPT !.phase = "done", !.snap = <<>>,
                                !.wrote = WriteRank(k)]]

\* the handler of message k runs and its storage.get answers (lines 25, 34)
BgRead(k) ==
  /\ msgs[k].via = "message"
  /\ msgs[k].phase = "sent"
  /\ msgs' = AfterRead(k, msgs[k])
  /\ UNCHANGED <<pageVars, inst, clicksLeft, storeVars, ledger, envVars>>

\* the get callback of message k: storage.set of the new value (lines 26-28,
\* 35-49)
BgWrite(k) ==
  /\ msgs[k].via = "message"
  /\ msgs[k].phase = "read"
  /\ msgs' = AfterWrite(k)
  /\ IF msgs[k].action = "addPurchase"
       THEN /\ purchases' = StorageSet(AddPurchaseResult(msgs[k].snap,
                                         PurchaseEntry(k, msgs[k])))
            /\ UNCHANGED totalIntercepts
       ELSE /\ totalIntercepts' = IncrementResult(msgs[k].snap[1])
            /\ UNCHANGED purchases
  /\ UNCHANGED <<pageVars, inst, clicksLeft, ledger, envVars>>

Next ==
  \/ InitCall
  \/ Mutation
  \/ \E b \in Buttons : UserClick(b)
  \/ \E i \in 1..Len(inst) : SettingsResponse(i)
  \/ \E i \in 1..Len(inst) : SavingsRead(i)
  \/ \E i \in 1..Len(inst) : SavingsWrite(i)
  \/ \E i \in 1..Len(inst) : ShowOverlay(i)
  \/ \E i \in 1..Len(inst) : AdvanceClock(i)
  \/ \E i \in 1..Len(inst) : SkipTimeout(i)
  \/ \E i \in 1..Len(inst) : IntervalTick(i)
  \/ \E i \in 1..Len(inst) : SkipClick(i)
  \/ \E i \in 1..Len(inst) : WaitClick(i)
  \/ \E i \in 1..Len(inst) : FadeTimeout(i)

\* the content script on a page: several intercepted clicks, short cooldowns
Init ==
  /\ InitPage
  /\ clicksLeft = MaxClicks
  /\ cooldownSeconds \in 1..ShortCooldown
  /\ purchases = <<>>

Spec == Init /\ [][Next]_vars

\* one interception followed through cooldowns of every length
InitCooldown ==
  /\ InitPage
  /\ clicksLeft = 1
  /\ cooldownSeconds \in 1..MaxCooldown
  /\ purchases = <<>>

SpecCooldown == InitCooldown /\ [][Next]_vars

\* entries persisted by earlier page visits
\* (the j-th newest of them, stored j milliseconds before the clock starts)
OldEntry(j) ==
  [id |-> 0 - j, req |-> MsgId(0, "old", j), url |-> PageUrl,
   timestamp |-> 0 - j, intercepted |-> TRUE, proceeded |-> FALSE,
   amount |-> 0]
OldPurchases(n) == [j \in 1..n |-> OldEntry(j)]

\* one interception on a page that does not change its elements, together
\* with the background handler, starting from an empty purchases list or
\* from a full one
InitStore ==
  /\ InitPage
  /\ inDom = Buttons
  /\ clicksLeft = 1
  /\ cooldownSeconds \in 1..ShortCooldown
  /\ purchases \in {<<>>, OldPurchases(PurchasesCap)}

NextStore ==
  \/ InitCall
  \/ \E b \in Buttons : UserClick(b)
  \/ \E i \in 1..Len(inst) : SettingsResponse(i)
  \/ \E i \in 1..Len(inst) : SavingsRead(i)
  \/ \E i \in 1..Len(inst) : SavingsWrite(i)
  \/ \E i \in 1..Len(inst) : ShowOverlay(i)
  \/ \E i \in 1..Len(inst) : AdvanceClock(i)
  \/ \E i \in 1..Len(inst) : SkipTimeout(i)
  \/ \E i \in 1..Len(inst) : IntervalTick(i)
  \/ \E i \in 1..Len(inst) : SkipClick(i)
  \/ \E i \in 1..Len(inst) : WaitClick(i)
  \/ \E i \in 1..Len(inst) : FadeTimeout(i)
  \/ \E k \in DOMAIN msgs : BgRead(k)
  \/ \E k \in DOMAIN msgs : BgWrite(k)

SpecStore == InitStore /\ [][NextStore]_vars

(* ------------------ the store under requests of any origin ------------ *)
\* purchases handed to addPurchase
PurchaseInputs ==
  [url : {PageUrl}, timestamp : {clock}, reason : {Undefined, "impulse"},
   intercepted : BOOLEAN, proceeded : BOOLEAN, amount : Prices]

\* what content scripts send: recordIntercept and recordProceed
TabMessages ==
  {AddPurchaseMsg(FALSE, a) : a \in Prices}
    \cup {AddPurchaseMsg(TRUE, 0), IncrementMsg}

NextRequest(kind) == MsgId(0, kind, Cardinality(DOMAIN msgs) + 1)

storeFrame == <<pageVars, inst, clicksLeft, ledger, cooldownSeconds,
                pagePrice, monthKey, settings, guardSettings,
                 auxVars>>

\* a millisecond passes
ClockTick ==
  /\ clock < MaxClock
  /\ clock' = clock + 1
  /\ UNCHANGED <<storeFrame, msgs, storeVars>>

\* the content script of some tab sends a message to the background
TabSend(m) ==
  /\ Cardinality(DOMAIN msgs) < MaxRequests
  /\ msgs' = msgs @@ (NextRequest("tab") :> m)
  /\ UNCHANGED <<storeFrame, storeVars, clock>>

\* utils/storage addPurchase(p) up to the answer of getPurchases (lines
\* 88-89, 80-83, 29-32)
UtilAddPurchase(p) ==
  /\ Cardinality(DOMAIN msgs) < MaxRequests
  /\ msgs' = AfterRead(NextRequest("call"), Request("addPurchase", "call", p))
  /\ UNCHANGED <<storeFrame, storeVars, clock>>

\* utils/storage incrementIntercepts() up to the answer of
\* getTotalIntercepts (lines 116-117, 108-111)
UtilIncrement ==
  /\ Cardinality(DOMAIN msgs) < MaxRequests
  /\ msgs' = AfterRead(NextRequest("call"),
                       [IncrementMsg EXCEPT !.via = "call"])
  /\ UNCHANGED <<storeFrame, storeVars, clock>>

\* the rest of addPurchase (lines 90-102) or of incrementIntercepts (line
\* 118): setItem of the new value
UtilWrite(k) ==
  /\ msgs[k].via = "call"
  /\ msgs[k].phase = "read"
  /\ msgs' = AfterWrite(k)
  /\ IF msgs[k].action = "addPurchase"
       THEN /\ purchases' = StorageSet(AddPurchaseResult(msgs[k].snap,
                                         PurchaseEntry(k, msgs[k])))
            /\ UNCHANGED totalIntercepts
       ELSE /\ totalIntercepts' = IncrementResult(msgs[k].snap[1])
            /\ UNCHANGED purchases
  /\ UNCHANGED <<storeFrame, clock>>

\* the store starts as installed, or one entry short of the cap
InitPurchases ==
  /\ InitPage
  /\ inDom = {}
  /\ pagePrice = 0
  /\ clicksLeft = 0
  /\ cooldownSeconds = ShortCooldown
  /\ purchases \in {<<>>, OldPurchases(PurchasesCap - 1)}

NextPurchases ==
  \/ ClockTick
  \/ \E m \in TabMessages : TabSend(m)
  \/ \E p \in PurchaseInputs : UtilAddPurchase(p)
  \/ UtilIncrement
  \/ \E k \in DOMAIN msgs : BgRead(k)
  \/ \E k \in DOMAIN msgs : BgWrite(k)
  \/ \E k \in DOMAIN msgs : UtilWrite(k)

SpecPurchases == InitPurchases /\ [][NextPurchases]_vars

(* ------------------ the savings ledger under recordSavings ------------ *)
\* recordSavings(context) is called with a price and, or not, a category
\* (lines 1627-1630): the call waits for getSavingsData
RecordSavingsCall(price, category) ==
  /\ Len(inst) < MaxRequests
  /\ inst' = Append(inst, [NewInst("b1") EXCEPT !.pc = "savingsGet",
                              !.seconds = cooldownSeconds, !.price = price,
                              !.category = category])
  /\ UNCHANGED <<pageVars, clicksLeft, msgs, storeVars, ledger, envVars>>

\* the month of Date.now() changes (line 1632)
MonthChange ==
  /\ monthKey = FirstMonth
  /\ monthKey' \in Months \ {FirstMonth}
  /\ UNCHANGED <<pageVars, inst, clicksLeft, msgs, storeVars, ledger,
                 cooldownSeconds, pagePrice, clock, settings, guardSettings,
                 auxVars>>

InitSavings ==
  /\ InitPage
  /\ inDom = {}
  /\ pagePrice = 0
  /\ clicksLeft = 0
  /\ cooldownSeconds = ShortCooldown
  /\ purchases = <<>>

NextSavings ==
  \/ \E a \in SavedPrices, c \in Categories \cup {NoCategory} :
       RecordSavingsCall(a, c)
  \/ MonthChange
  \/ \E i \in 1..Len(inst) : SavingsRead(i)
  \/ \E i \in 1..Len(inst) : SavingsWrite(i)

SpecSavings == InitSavings /\ [][NextSavings]_vars

(* ------------- CheckoutInterceptor and the persisted settings --------- *)
\* values the user sets cooldownSeconds to
CooldownChoices == {5, DefaultCooldown}

\* what getSettings answers a content script: utils/storage getSettings
\* (lines 124-131, imported at intercept.tsx line 4) reads the stored
\* settings; utils/messaging getSettings (imported at line 293) asks the
\* background with a 'getSettings' message, which the background handler
\* (background/index.ts lines 23-53) does not answer, and falls back to the
\* default
GetSettingsAnswers == {settings, DefaultCooldown}

\* addInterception, lines 475-511 (157-166): the cooldownSeconds the
\* listener of button b passes to showCooldown, from its closure
ClosureSeconds(b) == guardSettings[b]

\* the popup saves a new cooldown (Popup.tsx line 69, utils/storage
\* updateSettings lines 136-140)
UpdateSettings(v) ==
  /\ v # settings
  /\ settings' = v
  /\ UNCHANGED <<pageVars, inst, clicksLeft, msgs, storeVars, ledger,
                 cooldownSeconds, pagePrice, monthKey, clock, guardSettings,
                 auxVars>>

\* interceptCheckoutButtons, lines 466-473 (129-139): getSettings answers
\* and every checkout button without a listener gets one that keeps the
\* answer
CheckoutGuard ==
  /\ \E b \in inDom : isPurchaseButton(b) /\ guardSettings[b] = 0
  /\ \E answer \in GetSettingsAnswers :
       guardSettings' = [b \in Buttons |->
         IF b \in inDom /\ isPurchaseButton(b) /\ guardSettings[b] = 0
           THEN answer ELSE guardSettings[b]]
  /\ UNCHANGED <<pageVars, inst, clicksLeft, msgs, storeVars, ledger,
                 cooldownSeconds, pagePrice, monthKey, clock, settings,
                 auxVars>>

\* interceptClick up to await incrementIntercepts(), lines 477-484
CheckoutClick(b) ==
  /\ b \in inDom
  /\ guardSettings[b] > 0
  /\ clicksLeft > 0
  /\ clicksLeft' = clicksLeft - 1
  /\ inst' = Append(inst, [NewInst(b) EXCEPT !.pc = "ckIncrement",
                              !.price = pagePrice,
                              !.seconds = ClosureSeconds(b)])
  /\ msgs' = msgs @@ (MsgId(Len(inst) + 1, "increment", 1) :> IncrementMsg)
  /\ UNCHANGED <<pageVars, storeVars, ledger, envVars>>

\* incrementIntercepts is answered; addPurchase is sent (lines 485-492)
CheckoutIncremented(i) ==
  /\ inst[i].pc = "ckIncrement"
  /\ msgs[MsgId(i, "increment", 1)].phase = "done"
  /\ inst' = [inst EXCEPT ![i] = [@ EXCEPT !.pc = "ckRecord"]]
  /\ msgs' = msgs @@ (MsgId(i, "record", 1) :>
                        AddPurchaseMsg(FALSE, inst[i].price))
  /\ UNCHANGED <<pageVars, clicksLeft, storeVars, ledger, envVars>>

\* addPurchase is answered; showCooldown runs with the cooldownSeconds of
\* the closure (lines 494-508)
CheckoutRecorded(i) ==
  /\ inst[i].pc = "ckRecord"
  /\ msgs[MsgId(i, "record", 1)].phase = "done"
  /\ inst' = [inst EXCEPT ![i] = [@ EXCEPT !.pc = "ckShown",
                 !.overlay = "shown", !.remaining = inst[i].seconds]]
  /\ UNCHANGED <<pageVars, clicksLeft, msgs, storeVars, ledger, envVars>>

\* the cooldown resolves (onComplete or onSkip, lines 500-508) and
\* proceedWithOriginalAction runs, lines 514-531 (part_006 lines 151-168):
\* the proceeded=true record is sent, the listener is removed from the
\* button and from interceptedListeners, and the dispatched click reaches
\* the page
CheckoutProceed(i) ==
  /\ inst[i].pc = "ckShown"
  /\ inst' = [inst EXCEPT ![i] = [@ EXCEPT !.pc = "ckProceeded",
                 !.overlay = "none", !.proceeds = @ + 1]]
  /\ msgs' = msgs @@ (MsgId(i, "proceed", 1) :> AddPurchaseMsg(TRUE, 0))
  /\ guardSettings' = [guardSettings EXCEPT ![inst[i].btn] = 0]
  /\ UNCHANGED <<pageVars, clicksLeft, storeVars, ledger, cooldownSeconds,
                 pagePrice, monthKey, clock, settings, auxVars>>

InitCheckout ==
  /\ InitPage
  /\ inDom = Buttons
  /\ clicksLeft = MaxClicks
  /\ cooldownSeconds = DefaultCooldown
  /\ purchases = <<>>

NextCheckout ==
  \/ \E v \in CooldownChoices : UpdateSettings(v)
  \/ CheckoutGuard
  \/ \E b \in Buttons : CheckoutClick(b)
  \/ \E i \in 1..Len(inst) : CheckoutIncremented(i)
  \/ \E i \in 1..Len(inst) : CheckoutRecorded(i)
  \/ \E k \in DOMAIN msgs : BgRead(k)
  \/ \E k \in DOMAIN msgs : BgWrite(k)

SpecCheckout == InitCheckout /\ [][NextCheckout]_vars

\* --- one intercepted click under every outcome of its settings request ---
\* The event loop runs a task that is ready: the continuation of a resolved
\* promise, a storage callback, a due timer.  The user's clicks on the
\* overlay and the answer of the background are not forced.
InitLive ==
  /\ InitPage
  /\ inDom = Buttons
  /\ clicksLeft = 1
  /\ purchases = <<>>
  /\ cooldownSeconds \in 1..ShortCooldown

PageTask ==
  \/ InitCall
  \/ \E i \in DOMAIN inst :
       \/ SettingsResponse(i) \/ SettingsError(i)
       \/ SavingsRead(i) \/ SavingsWrite(i) \/ ShowOverlay(i)
       \/ AdvanceClock(i) \/ SkipTimeout(i) \/ IntervalTick(i)
       \/ FadeTimeout(i)

NextLive ==
  \/ InitCall
  \/ \E b \in Buttons : UserClick(b)
  \/ \E i \in DOMAIN inst :
       \/ SettingsResponse(i) \/ SettingsError(i) \/ SettingsUnanswered(i)
       \/ SavingsRead(i) \/ SavingsWrite(i) \/ ShowOverlay(i)
       \/ AdvanceClock(i) \/ SkipTimeout(i) \/ IntervalTick(i)
       \/ SkipClick(i) \/ WaitClick(i) \/ FadeTimeout(i)

SpecLive == InitLive /\ [][NextLive]_vars /\ WF_vars(PageTask)

\* --- the reads of the store, over stores that miss keys and reads that fail
InitReads ==
  /\ started = FALSE /\ inDom = {} /\ cooldownActive = FALSE
  /\ interceptedButtons = {} /\ processedButtons = {}
  /\ eventListeners = {} /\ clickListeners = [b \in Buttons |-> 0]
  /\ reintercepted = FALSE /\ inst = <<>> /\ clicksLeft = 0 /\ msgs = <<>>
  /\ cooldownSeconds = ShortCooldown /\ pagePrice = 0
  /\ monthKey = FirstMonth /\ clock = 0
  /\ guardSettings = [b \in Buttons |-> 0]
  /\ purchases \in {<<>>, OldPurchases(1)}
  /\ totalIntercepts \in 0..MaxRequests
  /\ settings \in CooldownChoices
  /\ ledger \in {getDefaultSavingsData,
                 FoldSavings(getDefaultSavingsData, 30, NoCategory, FirstMonth)}
  /\ absentKeys \in SUBSET StoreKeys
  /\ page = ShopPage
  /\ elements = ShopElements
  /\ formButtons = {}
  /\ timer = NoTimer
  /\ debounce = NoDebounce
  /\ setGuard = NoSetGuard
  /\ call = NoCall

NextReads == \E fn \in ReadFns, failure \in Failures : ReadCall(fn, failure)

SpecReads == InitReads /\ [][NextReads]_vars

\* --- getGPTNudge over the outcomes of its provider
InitNudge ==
  /\ InitPage
  /\ inDom = {}
  /\ pagePrice = 0
  /\ clicksLeft = 0
  /\ cooldownSeconds = ShortCooldown
  /\ purchases = <<>>

NextNudge ==
  \E v \in ProviderValues, r \in 0..(Len(GenericNudges) - 1) :
    \/ \E api \in ChromeAIOutcomes : NudgeCall("ChromeAI", api, v, r)
    \/ \E api \in OpenAIOutcomes : NudgeCall("OpenAI", api, v, r)

SpecNudge == InitNudge /\ [][NextNudge]_vars

\* --- scans and mutations over pages and elements of several kinds
InitClassify ==
  /\ InitInterceptor
  /\ page \in Pages
  /\ elements \in [Buttons -> ElementKinds]
  /\ formButtons = {}
  /\ pagePrice = 0
  /\ clicksLeft = 0
  /\ cooldownSeconds = ShortCooldown
  /\ purchases = <<>>

NextClassify ==
  \/ InitCall
  \/ Mutation
  \/ \E b \in Buttons : ClassifyCall(b)

SpecClassify == InitClassify /\ [][NextClassify]_vars

\* --- one interception of a button that may be a form's submit button
InitForm ==
  /\ InitInterceptor
  /\ page = ShopPage
  /\ elements = ShopElements
  /\ formButtons \in SUBSET Buttons
  /\ inDom = Buttons
  /\ clicksLeft = 1
  /\ purchases = <<>>
  /\ cooldownSeconds \in 1..ShortCooldown

NextForm ==
  \/ InitCall
  \/ \E b \in Buttons : UserClick(b)
  \/ \E i \in DOMAIN inst :
       \/ SettingsResponse(i) \/ SavingsRead(i) \/ SavingsWrite(i)
       \/ ShowOverlay(i)
       \/ AdvanceClock(i) \/ SkipTimeout(i) \/ IntervalTick(i)
       \/ SkipClick(i) \/ WaitClick(i) \/ FadeTimeout(i)
       \/ FormSubmitTimeout(i)

SpecForm == InitForm /\ [][NextForm]_vars

\* --- one cooldown shown by the React component
InitTimer ==
  /\ InitPage
  /\ inDom = Buttons
  /\ pagePrice = 0
  /\ clicksLeft = 0
  /\ cooldownSeconds = ShortCooldown
  /\ purchases = <<>>

NextTimer ==
  \/ \E variant \in TimerVariants, seconds \in 1..MaxCooldown :
       TimerMount(variant, seconds)
  \/ TimerAdvance
  \/ TimerSkipTimeout
  \/ TimerTick
  \/ TimerSkipClick
  \/ TimerTakeTime
  \/ TimerFadeComplete
  \/ TimerFadeSkip
  \/ TimerFadeBack

SpecTimer == InitTimer /\ [][NextTimer]_vars

\* --- a Set-based interceptor, one button, its clicks and cooldowns
InitSetGuard ==
  /\ InitPage
  /\ inDom = Buttons
  /\ pagePrice = 0
  /\ clicksLeft = 0
  /\ cooldownSeconds = ShortCooldown
  /\ purchases = <<>>

NextSetGuard ==
  \/ \E variant \in SetVariants : SetInit(variant)
  \/ SetScan
  \/ SetUserClick
  \/ SetShowCooldown
  \/ SetProceed
  \/ SetAbandon
  \/ SetFadeTimeout

SpecSetGuard == InitSetGuard /\ [][NextSetGuard]_vars

\* --- the observer of CheckoutInterceptor over bursts of mutation batches
InitDebounce ==
  /\ InitPage
  /\ inDom = Buttons
  /\ pagePrice = 0
  /\ clicksLeft = 0
  /\ cooldownSeconds = ShortCooldown
  /\ purchases = <<>>

NextDebounce ==
  \/ MutationBatch
  \/ DebounceAdvance
  \/ DebounceLater

SpecDebounce == InitDebounce /\ [][NextDebounce]_vars

\* --- CheckoutInterceptor with cooldowns that resolve to proceed
NextReguard ==
  \/ CheckoutGuard
  \/ \E b \in Buttons : CheckoutClick(b)
  \/ \E i \in 1..Len(inst) : CheckoutIncremented(i)
  \/ \E i \in 1..Len(inst) : CheckoutRecorded(i)
  \/ \E i \in 1..Len(inst) : CheckoutProceed(i)
  \/ \E k \in DOMAIN msgs : BgRead(k)
  \/ \E k \in DOMAIN msgs : BgWrite(k)

SpecReguard == InitCheckout /\ [][NextReguard]_vars

\* --- the text functions of the purchase context over example texts
InitText ==
  /\ InitPage
  /\ inDom = {}
  /\ pagePrice = 0
  /\ clicksLeft = 0
  /\ cooldownSeconds = ShortCooldown
  /\ purchases = <<>>

NextText ==
  \/ \E t \in PriceTexts : ExtractCall(t)
  \/ \E url \in PageUrls, productName \in ProductNames,
        pageContent \in PageContents, title \in PageTitles :
       CategorizeCall(url, productName, pageContent, title)

SpecText == InitText /\ [][NextText]_vars

\* --- one cooldown of LightweightInterceptor of every length followed to
\* its end, then one cooldown shown by the React component
CooldownOver ==
  /\ inst # <<>>
  /\ \A i \in 1..Len(inst) :
       /\ inst[i].pc = "shown"
       /\ inst[i].overlay = "removed"
       /\ ~inst[i].interval
       /\ inst[i].fadeTimers = 0

NextCountdown ==
  \/ timer = NoTimer /\ Next
  \/ CooldownOver /\ NextTimer

SpecCountdown == InitCooldown /\ [][NextCountdown]_vars

(* ------------------------------ claims -------------------------------- *)
Insts == 1..Len(inst)
Shown(i) == inst[i].pc = "shown"

\* C1: for every cooldown, proceedWithClick (the replay of the original
\* click) runs at most once, whatever the interleaving of overlay button
\* clicks, countdown ticks and the 300 ms fade-out timer.
\* It runs exactly once when the cooldown resolved to Proceed.
C1_ReplayAtMostOnce ==
  \A i \in Insts :
    /\ inst[i].proceeds <= 1
    /\ MsgId(i, "proceed", 1) \in DOMAIN msgs => inst[i].proceeds = 1

\* C2: once the user has clicked 'Take More Time to Decide' on an overlay,
\* proceedWithClick is never invoked for that cooldown again and no further
\* proceeded=true record is sent for it.
C2_AbandonIsFinal ==
  [][\A i \in Insts :
       inst[i].abandoned =>
         /\ inst'[i].proceeds = inst[i].proceeds
         /\ \A n \in 1..MaxOverlayClicks + 1 :
              MsgId(i, "proceed", n) \in DOMAIN msgs'
                => MsgId(i, "proceed", n) \in DOMAIN msgs]_vars

\* C3: proceedWithClick releases the guard before it dispatches the
\* synthetic events, so none of them is caught by an interception listener,
\* and a button that was proceeded with never has an interception listener
\* again, whatever scans follow.
C3_NoReinterception ==
  /\ ~reintercepted
  /\ \A i \in Insts :
       inst[i].proceeds > 0 =>
         /\ clickListeners[inst[i].btn] = 0
         /\ inst[i].btn \notin eventListeners
         /\ inst[i].btn \in processedButtons

\* a proceeded button is in the document and a scan has run since: the
\* overlay was removed, whose observer callback scans
C3_Witness ==
  \E i \in Insts :
    /\ inst[i].proceeds > 0
    /\ inst[i].overlay = "removed"
    /\ inst[i].btn \in inDom
    /\ ~cooldownActive

\* C4: if the user clicks neither overlay button, the cooldown resolves to
\* Proceed when the countdown reaches zero: onComplete has run, the overlay
\* is being removed and a proceeded=true record was sent.
C4_AutoProceed ==
  \A i \in Insts :
    (Shown(i) /\ inst[i].remaining <= 0 /\ ~inst[i].abandoned) =>
      /\ inst[i].proceeds >= 1
      /\ inst[i].overlay # "shown"
      /\ MsgId(i, "proceed", 1) \in DOMAIN msgs

\* C5: with duration d the skip button is shown, and a click on it can
\* resolve the cooldown, from min(5, d) seconds after the overlay was
\* created and not earlier; the countdown goes on after the unlock, one
\* second per tick.
C5_SkipUnlock ==
  \A i \in Insts :
    Shown(i) =>
      LET r == inst[i]
          unlock == IF r.seconds < 5 THEN r.seconds ELSE 5
      IN /\ r.canSkip => r.now >= unlock
         /\ r.now > unlock => r.canSkip
         /\ r.proceeds > 0 => r.now >= unlock
         /\ r.remaining >= 0
         /\ r.remaining \in {r.seconds - r.now, r.seconds - r.now + 1}
         /\ r.interval = (r.remaining > 0)

\* a cooldown longer than 5 s whose countdown has gone on past the unlock
C5_Witness ==
  \E i \in Insts :
    /\ inst[i].seconds > 5
    /\ inst[i].canSkip
    /\ inst[i].now > 5
    /\ inst[i].remaining = inst[i].seconds - inst[i].now

\* C6: after the 'Take More Time to Decide' click neither the countdown
\* interval callback nor the skip-unlock timeout callback of that cooldown
\* runs again.
C6_TimersCancelled == \A i \in Insts : ~inst[i].staleFired

\* C7: the persisted savings ledger changes only in a step in which a
\* cooldown resolves to Abandon.
C7_LedgerOnlyOnAbandon ==
  [][ledger' # ledger =>
       \E i \in Insts : ~inst[i].abandoned /\ inst'[i].abandoned]_vars

\* C8: when a cooldown resolves to Abandon, totalSaved grows: by the
\* extracted price when there is one, by a positive estimate otherwise.
C8_AbandonAddsSavings ==
  [][\A i \in Insts :
       (~inst[i].abandoned /\ inst'[i].abandoned) =>
         /\ ledger'.totalSaved > ledger.totalSaved
         /\ inst[i].price # 0 =>
              ledger'.totalSaved = ledger.totalSaved + inst[i].price]_vars

\* C9: every element has at most one interception click listener, and
\* eventListeners holds exactly the elements that have one.
C9_OneListener ==
  /\ \A b \in Buttons : clickListeners[b] <= 1
  /\ eventListeners = {b \in Buttons : clickListeners[b] > 0}

\* both a released and a still guarded element exist after a resolution
C9_Witness ==
  /\ \E i \in Insts : inst[i].proceeds > 0 /\ inst[i].overlay = "removed"
  /\ \E b \in Buttons : clickListeners[b] = 1
  /\ \E b \in Buttons : b \in processedButtons /\ clickListeners[b] = 0

RecordsOf(i) ==
  {k \in DOMAIN msgs : k[1] = i /\ msgs[k].action = "addPurchase"
                        /\ msgs[k].intercepted /\ ~msgs[k].proceeded}
IncrementsOf(i) ==
  {k \in DOMAIN msgs : k[1] = i /\ msgs[k].action = "incrementIntercepts"}

\* C10: an intercepted click has sent exactly one addPurchase request with
\* intercepted=true, proceeded=false and exactly one incrementIntercepts
\* request once its settings are in, hence before its overlay is shown, and
\* none before; a request handled while no other request for the same key is
\* between its read and its write puts exactly its own entry in front of the
\* purchases list (the 100-entry cap dropping the oldest), respectively adds
\* exactly 1 to totalIntercepts.
C10_RecordOnIntercept ==
  /\ [](\A i \in Insts :
          /\ Cardinality(RecordsOf(i)) = (IF inst[i].pc = "settings" THEN 0 ELSE 1)
          /\ Cardinality(IncrementsOf(i)) = Cardinality(RecordsOf(i))
          /\ \A k \in RecordsOf(i) : msgs[k].amount = inst[i].price)
  /\ [][\A k \in DOMAIN msgs :
          (msgs[k].phase = "read" /\ msgs'[k].phase = "done"
             /\ ~msgs[k].overlapped) =>
            IF msgs[k].action = "addPurchase"
              THEN /\ purchases' = Take(<<Strip(PurchaseEntry(k, msgs[k]))>>
                                          \o purchases, PurchasesCap)
                   /\ Len(purchases') = Min(Len(purchases) + 1, PurchasesCap)
                   /\ totalIntercepts' = totalIntercepts
              ELSE /\ totalIntercepts' = totalIntercepts + 1
                   /\ purchases' = purchases]_vars

\* the record of an intercepted click was stored, without overlap, in a
\* list that was full, and the counter was incremented
C10_Witness ==
  \E i \in Insts :
    /\ inst[i].pc # "settings"
    /\ msgs[MsgId(i, "record", 1)].phase = "done"
    /\ ~msgs[MsgId(i, "record", 1)].overlapped
    /\ msgs[MsgId(i, "increment", 1)].phase = "done"
    /\ Len(purchases) = PurchasesCap
    /\ purchases[1].req = MsgId(i, "record", 1) /\ ~purchases[1].proceeded
    /\ purchases[2] = OldEntry(1)
    /\ totalIntercepts = 1

ProceedMsgs == {k \in DOMAIN msgs : msgs[k].action = "addPurchase"
                                      /\ msgs[k].proceeded}
RecordMsgs == {k \in DOMAIN msgs : msgs[k].action = "addPurchase"
                                     /\ ~msgs[k].proceeded}

\* C11: a proceeded=true record is sent only by the proceed path of a
\* cooldown whose skip button was unlocked, after the proceeded=false record
\* of the same interception was sent, and the proceeded=true records sent
\* are never more than the proceeded=false records sent.
C11_ProceedAfterRecord ==
  /\ \A k \in ProceedMsgs :
       /\ k[1] \in Insts
       /\ inst[k[1]].canSkip
       /\ inst[k[1]].proceeds >= k[3]
       /\ MsgId(k[1], "record", 1) \in RecordMsgs
  /\ Cardinality(ProceedMsgs) <= Cardinality(RecordMsgs)

AddRequests == {k \in DOMAIN msgs : msgs[k].action = "addPurchase"}
AddsDone == {k \in AddRequests : msgs[k].phase = "done"}
\* position of a stored entry in the order of insertion
InsertionRank(e) == IF e.req[2] = "old" THEN 0 - e.req[3] ELSE msgs[e.req].wrote
\* request k writes in this step
Writes(k) == msgs[k].phase = "read" /\ msgs'[k].phase = "done"

Calls == {k \in AddRequests : msgs[k].via = "call"}

\* C13: when addPurchase(p) of utils/storage has written, getPurchases
\* (with no write in between) returns a list whose first entry has the url,
\* timestamp, intercepted, proceeded, amount and reason of p, and an id
\* generated from the clock.
C13_RoundTrip ==
  [][\A k \in Calls :
       Writes(k) =>
         LET got == purchases'[1]
             p == msgs[k]
         IN /\ Field(got, "url") = p.url
            /\ Field(got, "timestamp") = p.timestamp
            /\ Field(got, "intercepted") = p.intercepted
            /\ Field(got, "proceeded") = p.proceeded
            /\ Field(got, "amount") = p.amount
            /\ Field(got, "reason") = p.reason
            /\ "id" \in DOMAIN got /\ got.id = clock]_vars

\* a record with a reason and one without were written by addPurchase, the
\* later one on a full list at a later millisecond than it was created
C13_Witness ==
  /\ Len(purchases) = PurchasesCap
  /\ purchases[1].req \in Calls /\ purchases[2].req \in Calls
  /\ Field(purchases[1], "reason") = Undefined
  /\ Field(purchases[2], "reason") = "impulse"
  /\ purchases[1].proceeded /\ purchases[1].amount = 30
  /\ purchases[1].id > purchases[1].timestamp

\* C14: the ids of the entries in the stored purchases list are pairwise
\* distinct, also when two addPurchase requests are handled within the same
\* millisecond.
C14_UniqueIds ==
  \A a, b \in DOMAIN purchases : a # b => purchases[a].id # purchases[b].id

\* C15: a step that changes the purchases list changes no entry that was in
\* it and does not reorder them: the entries stored before follow the new
\* entry in their old order, and only the last one may be missing, when the
\* list was full.  The proceed follow-up is a new entry, and the
\* proceeded=false entry it follows up is still there.
C15_EntriesImmutable ==
  [][purchases' # purchases =>
       /\ Len(purchases') = Min(Len(purchases) + 1, PurchasesCap)
       /\ purchases'[1].req \notin {purchases[j].req : j \in DOMAIN purchases}
       /\ \A j \in 1..Len(purchases') - 1 : purchases'[j + 1] = purchases[j]]_vars

\* the recordSavings calls that have written the ledger
Saved == {i \in Insts : inst[i].pc = "prepare"}
\* call i writes the ledger in this step
Saves(i) == inst[i].pc = "savingsSet" /\ inst'[i].pc = "prepare"
BooksExample ==
  /\ Len(inst) = 2 /\ Saved = {1, 2}
  /\ ~inst[1].stale /\ ~inst[2].stale
  /\ inst[1].price = 30 /\ inst[2].price = 10
  /\ inst[1].category = "Books" /\ inst[2].category = "Books"

\* C16: a recordSavings call with price a, category c and month key m that
\* no other write overlaps adds a to totalSaved, 1 to interceptsCount, a to
\* the buckets of c and of m and to no other bucket, and replaces
\* biggestSave exactly when a exceeds it; 30 then 10 in Books from the
\* default ledger give totalSaved 40, Books 40, biggestSave 30.
C16_SavingsFold ==
  /\ [](BooksExample =>
          /\ ledger.totalSaved = 40
          /\ ledger.categorySavings["Books"] = 40
          /\ ledger.biggestSave = 30)
  /\ [][\A i \in Insts :
          (Saves(i) /\ ~inst[i].stale) =>
            LET a == inst[i].price
                c == inst[i].category
                m == inst[i].month
            IN /\ ledger'.totalSaved = ledger.totalSaved + a
               /\ ledger'.interceptsCount = ledger.interceptsCount + 1
               /\ \A x \in Categories :
                    ledger'.categorySavings[x] =
                      ledger.categorySavings[x] + (IF x = c THEN a ELSE 0)
               /\ \A x \in Months :
                    ledger'.monthlySavings[x] =
                      ledger.monthlySavings[x] + (IF x = m THEN a ELSE 0)
               /\ ledger'.biggestSave =
                    (IF a > ledger.biggestSave THEN a ELSE ledger.biggestSave)]_vars

\* 30 then 10 were saved in Books, the second after the first had written
C16_Witness ==
  /\ BooksExample
  /\ inst[2].data = getDefaultSavingsData
  /\ ledger.interceptsCount = 2
  /\ ledger.categorySavings["Books"] = 40

RECURSIVE SumPrices(_)
SumPrices(S) ==
  IF S = {} THEN 0
  ELSE LET i == CHOOSE x \in S : TRUE IN inst[i].price + SumPrices(S \ {i})
RECURSIVE MaxPrice(_)
MaxPrice(S) ==
  IF S = {} THEN 0
  ELSE LET i == CHOOSE x \in S : TRUE
           rest == MaxPrice(S \ {i})
       IN IF inst[i].price > rest THEN inst[i].price ELSE rest

\* C17: when no recordSavings call so far was overlapped by another write,
\* biggestSave is the largest amount recorded so far (0 when none) and
\* totalSaved is the sum of the amounts recorded.
C17_MaxAndSum ==
  (\A i \in Saved : ~inst[i].stale) =>
    /\ ledger.biggestSave = MaxPrice(Saved)
    /\ ledger.totalSaved = SumPrices(Saved)

\* a smaller amount was recorded before a bigger one
C17_Witness ==
  /\ Saved = {1, 2}
  /\ ~inst[1].stale /\ ~inst[2].stale
  /\ inst[1].price = 10 /\ inst[2].price = 30
  /\ inst[1].month # inst[2].month
  /\ ledger.biggestSave = 30 /\ ledger.totalSaved = 40

\* C18: totalSaved, interceptsCount and biggestSave of the persisted ledger
\* never decrease, also when recordSavings calls overlap.
C18_LedgerMonotonic ==
  [][/\ ledger'.totalSaved >= ledger.totalSaved
     /\ ledger'.interceptsCount >= ledger.interceptsCount
     /\ ledger'.biggestSave >= ledger.biggestSave]_vars

IncRequests == {k \in DOMAIN msgs : msgs[k].action = "incrementIntercepts"}
IncsDone == {k \in IncRequests : msgs[k].phase = "done"}

\* C19: an incrementIntercepts request reads totalIntercepts in one step
\* and writes the value it read plus one in a later step.  Starting from 0,
\* requests that do not overlap leave the counter at the number of requests
\* completed; with overlap the counter is at least 1 and at most that
\* number.
C19_IncrementBestEffort ==
  /\ [](/\ totalIntercepts <= Cardinality(IncsDone)
        /\ IncsDone # {} => totalIntercepts >= 1
        /\ (\A k \in IncsDone : ~msgs[k].overlapped) =>
             totalIntercepts = Cardinality(IncsDone))
  /\ [][\A k \in IncRequests :
          /\ (msgs[k].phase # "read" /\ msgs'[k].phase = "read") =>
               /\ totalIntercepts' = totalIntercepts
               /\ msgs'[k].snap = <<totalIntercepts>>
          /\ Writes(k) => totalIntercepts' = msgs[k].snap[1] + 1]_vars

\* two increments overlapped and one of them was lost
C19_Witness ==
  /\ Cardinality(IncsDone) = 2
  /\ \A k \in IncsDone : msgs[k].overlapped
  /\ totalIntercepts = 1

\* C20: every cooldown lasts Settings.cooldownSeconds as it was persisted
\* when the guarded button was clicked, also when the settings were updated
\* between the guarding of the button and the click.
C20_FreshSettings ==
  \A i \in Insts :
    inst[i].pc = "ckShown" => inst[i].seconds = inst[i].atClick


C22_ReadDefaults ==
  call.fn \in ReadFns =>
    /\ call.result.status = "resolved"
    /\ (call.failure # "none" \/ call.absent) =>
         CASE call.fn = "getSettings" ->
                call.result.value = [cooldownSeconds |-> 30,
                                     enableNudges |-> TRUE,
                                     enableScamDetection |-> TRUE]
           [] call.fn = "getTotalIntercepts" -> call.result.value = 0
           [] call.fn = "getPurchases" -> call.result.value = <<>>
           [] call.fn = "getSavingsData" ->
                /\ call.result.value.totalSaved = 0
                /\ call.result.value.interceptsCount = 0
                /\ call.result.value.biggestSave = 0
                /\ \A c \in Categories :
                     call.result.value.categorySavings[c] = 0
                /\ \A m \in Months :
                     call.result.value.monthlySavings[m] = 0

\* a read of settings fails while the store holds 5 seconds
C22_Witness ==
  /\ call.fn = "getSettings"
  /\ call.failure = "rejects"
  /\ ~call.absent
  /\ settings = 5
  /\ call.result = Resolved([cooldownSeconds |-> 30, enableNudges |-> TRUE,
                             enableScamDetection |-> TRUE])

\* the provider handed getGPTNudge a non-empty string
ProvidedText ==
  /\ call.api \in {"returns", "content"}
  /\ call.provided.type = "string"
  /\ call.provided.text # <<>>

C24_ExcludedHostUnguarded ==
  page = GitHubPage =>
    /\ \A b \in Buttons : clickListeners[b] = 0 /\ b \notin eventListeners
    /\ call.fn = "isPurchaseButton" => call.result = FALSE

\* a 'Buy Now' button is in the scanned document of the code-hosting page
\* and has been classified
C24_Witness ==
  /\ page = GitHubPage
  /\ started
  /\ "b1" \in inDom
  /\ elements["b1"] = BuyNowElement
  /\ call.fn = "isPurchaseButton"
  /\ call.element = BuyNowElement

\* the element's text, aria-label or class contains a purchase-intent
\* keyword
HasPurchaseKeyword(e) ==
  \E keyword \in purchaseKeywords :
    \/ Includes(toLowerCase(e.text), keyword)
    \/ Includes(toLowerCase(e.ariaLabel), keyword)
    \/ Includes(toLowerCase(e.className), keyword)

\* the element's text, aria-label, class or id contains a word of the
\* exclusion vocabulary
HasExcludeKeyword(e) ==
  \E keyword \in excludeKeywords :
    \/ Includes(toLowerCase(e.text), keyword)
    \/ Includes(toLowerCase(e.ariaLabel), keyword)
    \/ Includes(toLowerCase(e.className), keyword)
    \/ Includes(toLowerCase(e.id), keyword)

C26_GuardedWithinBatch ==
  started =>
    \A b \in inDom :
      (isPurchaseButton(b) /\ b \notin processedButtons
         /\ b \notin interceptedButtons) => clickListeners[b] > 0

\* C27: on Proceed for a submit button inside a form, form.submit() is
\* invoked only if the synthetic click did not already start the form's
\* submission: the form is submitted at most once per Proceed.
C27_SubmitAtMostOnce ==
  \A i \in Insts :
    inst[i].clickSubmits + inst[i].formSubmits <= inst[i].proceeds

\* C28: with CheckoutInterceptor and the React CooldownTimer a cooldown
\* invokes at most one of onComplete and onSkip, at most once, so
\* proceedWithOriginalAction runs at most once; after 'Proceed Anyway' the
\* countdown does not go on to fire onComplete.
C28_OneResolution ==
  timer.variant = "plain" =>
    /\ timer.completes + timer.skips <= 1
    /\ timer.proceeds <= 1

\* C29: after 'Take More Time to Decide' neither onComplete nor onSkip is
\* invoked for that cooldown.
C29_DroppedAfterTakeTime == timer.tookTime => timer.afterTake = 0

\* C30: in the version whose timer effect depends on timeLeft, 'Proceed
\* Anyway' is available from min(5, d) seconds after the mount on, for
\* every duration d > 0 (every timer that is due has run, the user has
\* clicked nothing).
C30_SkipUnlockedOnTime ==
  (/\ timer.variant = "fade"
   /\ ~timer.tookTime /\ timer.pendingSkip = 0 /\ timer.skips = 0
   /\ ~TimerSkipDue /\ ~TimerTickDue) =>
    (timer.canSkip <=>
       timer.now >= (IF timer.seconds < 5 THEN timer.seconds ELSE 5))

\* C31: in the Set-based CheckoutInterceptor and in the first
\* LightweightInterceptor the click dispatched by the proceed path is never
\* caught by a capture listener of the interceptor itself
C31_DispatchNotCaught == setGuard.caught = 0

\* mutation batches each arriving within 500 ms of the one before
IsBurst ==
  \A j \in 2..Len(debounce.batches) :
    debounce.batches[j] - debounce.batches[j - 1] < DebounceWait

\* C33: the batches of one burst cause one checkCurrentPage run, and that
\* run is 500 ms after the last batch of the burst
C33_OneRunPerBurst ==
  IsBurst =>
    /\ Len(debounce.runs) <= 1
    /\ \A j \in DOMAIN debounce.runs :
         debounce.runs[j] = debounce.batches[Len(debounce.batches)]
                              + DebounceWait

\* buttons proceedWithOriginalAction has run for
CheckoutProceeded ==
  {inst[i].btn : i \in {j \in Insts : inst[j].pc = "ckProceeded"}}

\* C32: in the Map-based CheckoutInterceptor a button that
\* proceedWithOriginalAction has run for never gets an interception
\* listener again
C32_NoReattach ==
  [][\A b \in CheckoutProceeded :
       guardSettings[b] = 0 => guardSettings'[b] = 0]_vars

\* C34: a price extractPriceFromText returns is above 0 and below
\* 1,000,000, whether it was matched with a currency or as a bare number
C34_PriceInRange ==
  (call.fn = "extractPriceFromText" /\ call.result.price.found) =>
    /\ call.result.price.value > 0
    /\ call.result.price.value < PriceCeiling * 100

\* the highest keyword hit count of a call and the categories that have it
TopScore == CHOOSE n \in {call.scores[c].score : c \in DOMAIN call.scores} :
              \A c \in DOMAIN call.scores : call.scores[c].score <= n
TopCategories ==
  {call.scores[c].name : c \in {d \in DOMAIN call.scores :
                                    call.scores[d].score = TopScore}}

\* C35: categorizePurchase returns the one category with the highest hit
\* count, and 'general' when all counts are zero or when categories tie for
\* the highest count
C35_HighestOrGeneral ==
  call.fn = "categorizePurchase" =>
    IF TopScore = 0 \/ Cardinality(TopCategories) > 1
      THEN call.result = "general"
      ELSE call.result \in TopCategories

\* interceptions whose handler awaits settings, records or the results
\* showCooldown waits for, or whose overlay is displayed
ActiveCooldowns ==
  {i \in Insts :
     \/ inst[i].pc \in {"settings", "savingsGet", "savingsSet", "prepare"}
     \/ inst[i].overlay = "shown"}

\* C36: in LightweightInterceptor at most one cooldown is pending or
\* displayed at any time
C36_OneCooldown == Cardinality(ActiveCooldowns) <= 1

\* C37: in LightweightInterceptor a button whose cooldown resolved to
\* Abandon keeps its one interception listener and stays in
\* interceptedButtons, so that its next click is intercepted again
C37_AbandonKeepsGuard ==
  \A i \in Insts :
    inst[i].abandoned =>
      /\ clickListeners[inst[i].btn] = 1
      /\ inst[i].btn \in interceptedButtons
      /\ inst[i].btn \in eventListeners

\* the sum of the buckets of a ledger map
RECURSIVE SumBuckets(_, _)
SumBuckets(f, K) ==
  IF K = {} THEN 0
  ELSE LET k == CHOOSE x \in K : TRUE IN f[k] + SumBuckets(f, K \ {k})

Counting(i) == inst[i].pc = "shown" /\ ~inst[i].abandoned
TimerCounting == timer.mounted /\ ~timer.tookTime

\* C39: in a cooldown that is not abandoned the remaining time starts at
\* the duration d, goes down by 1 with every tick and never below 0, and
\* the interval is cleared exactly when it is 0, so the countdown ends after
\* d ticks; for LightweightInterceptor.showCooldown and for CooldownTimer
C39_Countdown ==
  /\ [](/\ \A i \in Insts :
            Counting(i) =>
              /\ inst[i].remaining \in 0..inst[i].seconds
              /\ inst[i].interval <=> inst[i].remaining > 0
        /\ TimerCounting =>
              /\ timer.timeLeft \in 0..timer.seconds
              /\ timer.tickAt # NoTime <=> timer.timeLeft > 0)
  /\ [][/\ \A i \in Insts :
            /\ (inst[i].pc # "shown" /\ inst'[i].pc = "shown") =>
                  inst'[i].remaining = inst'[i].seconds
            /\ (Counting(i) /\ inst'[i].remaining # inst[i].remaining) =>
                  /\ TickDue(inst[i])
                  /\ inst'[i].remaining = inst[i].remaining - 1
        /\ (~timer.mounted /\ timer'.mounted) =>
              timer'.timeLeft = timer'.seconds
        /\ (TimerCounting /\ timer'.timeLeft # timer.timeLeft) =>
              /\ TimerTickDue
              /\ timer'.timeLeft = timer.timeLeft - 1]_vars

\* both countdowns have run from the longest duration down to 0 and their
\* intervals are cleared; the overlay of the first was left by 'Proceed
\* Anyway' before its countdown was over
C39_Witness ==
  /\ \E i \in Insts :
       /\ Counting(i)
       /\ inst[i].seconds = MaxCooldown
       /\ inst[i].remaining = 0
       /\ ~inst[i].interval
       /\ inst[i].proceeds > 0
  /\ TimerCounting
  /\ timer.seconds = MaxCooldown
  /\ timer.timeLeft = 0
  /\ timer.tickAt = NoTime

====
